---- MODULE Spec2Model ----
(***************************************************************************)
(* A model of the AI data query front end (Next.js) and of the dataset     *)
(* service it talks to.                                                    *)
(*                                                                         *)
(*   Home        src/frontend/src/app/page.tsx                             *)
(*   DataTable   src/frontend/src/components/DataTable.tsx                 *)
(*   QueryInput  src/frontend/src/components/QueryInput.tsx (1-256)        *)
(*   ChartDisplay src/frontend/src/components/QueryInput.tsx (258-644)     *)
(*   DataEditor  src/unnamed/part_000                                      *)
(*   api client  src/frontend/src/lib/api.ts                               *)
(*                                                                         *)
(* The back end (FastAPI) is not part of the sources; its operations are   *)
(* modelled from the specification (sections 4.4, 4.5, 6 and 8) and are    *)
(* the definitions whose names start with Server.                          *)
(*                                                                         *)
(* Every async handler is split at its await: the part before the await is *)
(* the action that issues the request (it captures the values of the       *)
(* render's closure in the request record), the service handles the        *)
(* request in a step of its own, and the part after the await is the       *)
(* action named after the handler with Done at its end.  The content of a  *)
(* tab is mounted only while the tab is active (TabsContent), and the      *)
(* components of a dataset only while a dataset is selected.               *)
(***************************************************************************)
EXTENDS Integers, Sequences, FiniteSets, TLC

(***************************************************************************)
(* Bounds of the model.                                                    *)
(***************************************************************************)
\* rows of the first dataset when the page is opened
NRows == 3
\* the page size the front end asks for (50 in the source, scaled down)
PageSize == 2
\* requests the user may start in one run
MaxOps == 3
\* requests in flight at the same time
MaxInFlight == 2

(***************************************************************************)
(* Cell values: string / number / boolean / null, tagged with their type   *)
(* so that the number 1 and the string "1" are different values.           *)
(***************************************************************************)
\* decimal text of the numbers the model uses
DigitText == <<"0", "1", "2", "3", "4", "5", "6", "7", "8", "9">>
NumText(n) == DigitText[n + 1]
IsNumText(s) == \E n \in 0..9 : DigitText[n + 1] = s
TextNum(s) == CHOOSE n \in 0..9 : DigitText[n + 1] = s

\* a value is <<type, text>>; the text is String(value ?? "")
Num(n) == <<"num", NumText(n)>>
Str(s) == <<"str", s>>
Null == <<"null", "">>
IsNum(v) == v[1] = "num"
IsNull(v) == v[1] = "null"
ToStr(v) == v[2]

\* String(value) as String.prototype.localeCompare orders it, lower-cased:
\* the empty string first, digits before letters.
TextOrder == <<"", "0", "1", "2", "3", "4", "5", "6", "7", "8", "9",
               "false", "true", "x", "y">>
TextRank(s) == CHOOSE i \in 1..Len(TextOrder) : TextOrder[i] = s

DatasetIds == {"d1", "d2"}
NoDataset == [id |-> "none", rows |-> 0, columns |-> 0, column_names |-> <<>>]

RECURSIVE SeqToSet(_)
SeqToSet(s) == IF s = <<>> THEN {} ELSE {Head(s)} \cup SeqToSet(Tail(s))

(***************************************************************************)
(* The dataset service (modelled from the specification).                  *)
(***************************************************************************)
\* ceil(R / P)
CeilDiv(r, p) == (r + p - 1) \div p

\* the uploaded file of dataset d1: NRows rows over the columns a and b
InitRows ==
    [i \in 1..NRows |->
        [a |-> IF i = NRows THEN Null ELSE Num(NRows - i),
         b |-> IF i = 1 THEN Str("x") ELSE Num(i)]]

InitStore ==
    [d \in DatasetIds |->
        IF d = "d1"
        THEN [exists |-> TRUE, columns |-> <<"a", "b">>, rows |-> InitRows]
        ELSE [exists |-> TRUE, columns |-> <<"a">>, rows |-> <<[a |-> Num(7)]>>]]

\* dataset info as the service reports it
ServerInfo(st, d) ==
    [id |-> d, rows |-> Len(st[d].rows), columns |-> Len(st[d].columns),
     column_names |-> st[d].columns]

\* the row slice of page p with page size P
ServerPageSlice(rows, p, P) ==
    LET lo == (p - 1) * P + 1
        hi == IF p * P < Len(rows) THEN p * P ELSE Len(rows)
    IN  IF p < 1 \/ lo > Len(rows) THEN <<>> ELSE SubSeq(rows, lo, hi)

ServerPagination(rows, p, P) ==
    [current_page |-> p, page_size |-> P, total_rows |-> Len(rows),
     total_pages |-> CeilDiv(Len(rows), P)]

\* GET /api/datasets/{id}?page=&page_size=
ServerGetDataset(st, d, p, P) ==
    [info |-> ServerInfo(st, d),
     data |-> ServerPageSlice(st[d].rows, p, P),
     pagination |-> ServerPagination(st[d].rows, p, P)]

\* PUT /api/data/{id}/cell: accepted when the cell exists
ServerCellExists(st, d, row, col) ==
    /\ st[d].exists
    /\ row >= 0 /\ row < Len(st[d].rows)
    /\ col \in SeqToSet(st[d].columns)

ServerUpdateCell(st, d, row, col, val) ==
    [st EXCEPT ![d].rows[row + 1][col] = val]

\* DELETE /api/datasets/{id}
ServerDelete(st, d) ==
    [st EXCEPT ![d] = [exists |-> FALSE, columns |-> <<>>, rows |-> <<>>]]

(***************************************************************************)
(* Modification commands.  The text of a command stands for the operation  *)
(* the language model translates it to; the column it reads must exist.    *)
(***************************************************************************)
ModifyColumn(cmd) ==
    CASE cmd = "fill b" -> "b"
      [] cmd = "drop nulls" -> "a"
      [] cmd = "add total" -> "a"
      [] OTHER -> "region"

RECURSIVE DropNulls(_)
DropNulls(rows) ==
    IF rows = <<>> THEN <<>>
    ELSE IF IsNull(Head(rows).a) THEN DropNulls(Tail(rows))
    ELSE <<Head(rows)>> \o DropNulls(Tail(rows))

\* the dataset after the whole command
ServerModified(ds, cmd) ==
    CASE cmd = "fill b" ->
            [ds EXCEPT !.rows = [i \in 1..Len(ds.rows) |->
                                    [ds.rows[i] EXCEPT !.b = Num(0)]]]
      [] cmd = "drop nulls" ->
            [ds EXCEPT !.rows = DropNulls(ds.rows)]
      [] cmd = "add total" ->
            [ds EXCEPT
                !.columns = IF "total" \in SeqToSet(ds.columns)
                            THEN ds.columns ELSE Append(ds.columns, "total"),
                !.rows = [i \in 1..Len(ds.rows) |->
                            [c \in DOMAIN ds.rows[i] \cup {"total"} |->
                                IF c = "total" THEN ds.rows[i].a
                                ELSE ds.rows[i][c]]]]
      [] OTHER -> ds

ServerRowsAffected(ds, cmd) ==
    IF cmd = "drop nulls" THEN Len(ds.rows) - Len(DropNulls(ds.rows))
    ELSE Len(ds.rows)

\* whether the executor can run the command on the dataset
ServerCanModify(st, d, cmd) ==
    st[d].exists /\ ModifyColumn(cmd) \in SeqToSet(st[d].columns)

\* POST /api/data/modify: the whole command or nothing (section 4.4)
ServerModify(st, d, cmd) ==
    IF ServerCanModify(st, d, cmd)
    THEN [st EXCEPT ![d] = ServerModified(st[d], cmd)]
    ELSE st

ServerModifyResult(st, d, cmd, generated) ==
    IF generated /\ ServerCanModify(st, d, cmd)
    THEN [success |-> TRUE, message |-> "Data modified successfully",
          rows_affected |-> ServerRowsAffected(st[d], cmd)]
    ELSE [success |-> FALSE,
          message |-> IF ~st[d].exists THEN "Dataset not found"
                      ELSE IF ~generated THEN "Generation failed"
                      ELSE "Column not found",
          rows_affected |-> 0]

\* GET /api/datasets
DatasetOrder == <<"d1", "d2">>
RECURSIVE ServerListFrom(_, _)
ServerListFrom(st, i) ==
    IF i > Len(DatasetOrder) THEN <<>>
    ELSE (IF st[DatasetOrder[i]].exists
          THEN <<ServerInfo(st, DatasetOrder[i])>> ELSE <<>>)
         \o ServerListFrom(st, i + 1)
ServerList(st) == ServerListFrom(st, 1)

(***************************************************************************)
(* Questions and chart requests.  The text stands for what the language    *)
(* model makes of it; generated says whether its completion could be       *)
(* parsed.                                                                 *)
(***************************************************************************)
ResultKinds == {"table", "value", "text", "error"}
\* a chart configuration; "" is the null of an axis
NoConfig == [chart_type |-> "bar", x_axis |-> "", y_axis |-> ""]

QueryColumn(text) == IF text = "sum region" THEN "region" ELSE "a"

\* POST /api/query: always one of the result kinds (section 4.3)
ServerQuery(st, d, text, generated) ==
    IF ~generated
    THEN [result_type |-> "error", value |-> Null,
          message |-> "Could not parse the response", pandas_code |-> Null]
    ELSE IF QueryColumn(text) \notin SeqToSet(st[d].columns)
    THEN [result_type |-> "error", value |-> Null,
          message |-> "Column not found", pandas_code |-> Str("df.sum")]
    ELSE CASE text = "count rows" ->
                [result_type |-> "value", value |-> Num(Len(st[d].rows)),
                 message |-> "The number of rows", pandas_code |-> Str("len")]
           [] text = "show a" ->
                [result_type |-> "table",
                 value |-> <<"table", NumText(Len(st[d].rows))>>,
                 message |-> "Column a", pandas_code |-> Str("df.a")]
           [] OTHER ->
                [result_type |-> "text", value |-> Str("x"),
                 message |-> "A description", pandas_code |-> Null]

\* the columns a chart request names
ChartColumns(text) ==
    CASE text = "bar a by b" -> <<"a", "b">>
      [] text = "pie of a" -> <<"a">>
      [] OTHER -> <<"sales", "region">>

\* POST /api/charts/generate: the axes are columns of the dataset, the data
\* is the subset of it to render (sections 3 and 8)
ServerChart(st, d, text, generated) ==
    IF ~(SeqToSet(ChartColumns(text)) \subseteq SeqToSet(st[d].columns))
    THEN [success |-> FALSE, config |-> NoConfig, data |-> <<>>,
          keys |-> <<>>, message |-> "Column not found"]
    ELSE IF ~generated
    THEN [success |-> FALSE, config |-> NoConfig, data |-> <<>>,
          keys |-> <<>>, message |-> ""]
    ELSE [success |-> TRUE,
          config |-> [chart_type |-> IF Len(ChartColumns(text)) > 1
                                     THEN "bar" ELSE "pie",
                      x_axis |-> ChartColumns(text)[1],
                      y_axis |-> IF Len(ChartColumns(text)) > 1
                                 THEN ChartColumns(text)[2] ELSE ""],
          data |-> st[d].rows, keys |-> st[d].columns, message |-> ""]

(***************************************************************************)
(* State.                                                                  *)
(***************************************************************************)
VARIABLES
    \* the service: dataset id -> [exists, columns, rows], and the ids it
    \* has given to uploads so far
    store, handedOut,
    \* requests in flight, and the number the next request gets
    net, nextId,
    \* Home (page.tsx 42-52)
    datasets, selectedDataset, tableData, pagination, suggestions, loading,
    \* the dataset the rows of tableData and pagination were fetched from
    tableOf,
    \* page.tsx 53: the tab whose content is mounted
    activeTab,
    \* DataTable (DataTable.tsx 40-46) and its memo sortedData, kept as the
    \* order in which the rows of data are shown
    editingCell, editValue, sortColumn, sortDirection, sortOrder,
    \* the 0-based global index of the row whose edit button was clicked
    clickedIndex,
    \* DataEditor (part_000 15-17)
    command, editorLoading, editorResult,
    \* QueryInput (QueryInput.tsx 24-28)
    query, queryLoading, queryResult, history,
    \* ChartDisplay (QueryInput.tsx 303-306)
    chartQuery, chartLoading, chartData, chartError,
    \* FileUpload (part_001 16-19); uploadedFile is the name of the file
    uploading, uploadedFile, uploadError, uploadSuccess,
    \* Home (page.tsx 54-56), the entry preferred_model of localStorage,
    \* the models the service is configured with and the request of
    \* loadModels
    models, selectedModel, modelsLoading, preferredModel, modelConfig,
    modelReq

serverVars == <<store, handedOut>>
uploadVars == <<uploading, uploadedFile, uploadError, uploadSuccess>>
modelVars == <<models, selectedModel, modelsLoading, preferredModel,
               modelConfig, modelReq>>
netVars == <<net, nextId>>
homeVars == <<datasets, selectedDataset, tableData, tableOf, pagination,
              suggestions,
              loading, activeTab>>
tableVars == <<editingCell, editValue, sortColumn, sortDirection, sortOrder,
               clickedIndex>>
editorVars == <<command, editorLoading, editorResult>>
queryVars == <<query, queryLoading, queryResult, history>>
chartVars == <<chartQuery, chartLoading, chartData, chartError>>
vars == <<store, net, nextId, datasets, selectedDataset, tableData, tableOf,
          pagination, suggestions, loading, activeTab, editingCell,
          editValue, sortColumn, sortDirection, sortOrder, clickedIndex,
          command, editorLoading, editorResult, query,
          queryLoading, queryResult, history, chartQuery, chartLoading,
          chartData, chartError, handedOut, uploading, uploadedFile,
          uploadError, uploadSuccess, models, selectedModel, modelsLoading,
          preferredModel, modelConfig, modelReq>>

(***************************************************************************)
(* Requests.  A request record holds what the handler's closure captured   *)
(* when it was called, then the answer.  phase: sent -> done.              *)
(***************************************************************************)
NoPagination ==
    [current_page |-> 1, page_size |-> PageSize, total_rows |-> 0,
     total_pages |-> 0]
NoEdit == [set |-> FALSE, row |-> 0, col |-> "", val |-> Null, dirty |-> FALSE]
\* the body of an answer; message is the message / explanation / error of
\* the answer's type, keys the key order of the objects of data
NoResp ==
    [info |-> NoDataset, data |-> <<>>, pagination |-> NoPagination,
     datasets |-> <<>>, success |-> FALSE, message |-> "", rows_affected |-> 0,
     result_type |-> "", value |-> Null, pandas_code |-> Null,
     config |-> NoConfig, keys |-> <<>>]

Request(n, kind, d) ==
    [n |-> n, kind |-> kind, ds |-> d, phase |-> "sent", ok |-> FALSE,
     page |-> 1, size |-> PageSize, row |-> 0, col |-> "", val |-> Null,
     text |-> "", resp |-> NoResp,
     \* the dataset selected in the render the handler was created in
     sel |-> "none",
     \* the component that sent it was unmounted
     orphan |-> FALSE,
     \* the service applied the write
     applied |-> FALSE,
     \* the row the user clicked on (a cell update)
     clicked |-> 0,
     \* the dataset was written after this answer was read from it
     stale |-> FALSE,
     \* the cell update this page is fetched for
     edit |-> NoEdit]

InFlight(kind) == {r \in net : r.kind = kind}
Sent == {r \in net : r.phase = "sent"}
Done == {r \in net : r.phase = "done"}
CanStart == nextId <= MaxOps /\ Cardinality(net) < MaxInFlight

(***************************************************************************)
(* DataTable: what it renders.                                             *)
(***************************************************************************)
NoColumn == ""
NoCell == [row |-> -1, column |-> NoColumn]
Identity(n) == [i \in 1..n |-> i]
Perms(n) == {p \in [1..n -> 1..n] : \A i, j \in 1..n : p[i] = p[j] => i = j}

\* row[column]; a missing key reads as undefined, which the code treats as null
RowVal(row, col) == IF col \in DOMAIN row THEN row[col] ELSE Null

Sign(x) == IF x < 0 THEN -1 ELSE IF x > 0 THEN 1 ELSE 0

\* the comparator of sortedData (DataTable.tsx 51-67)
Compare(aVal, bVal, dir) ==
    IF IsNull(aVal) THEN 1
    ELSE IF IsNull(bVal) THEN -1
    ELSE IF IsNum(aVal) /\ IsNum(bVal)
         THEN IF dir = "asc"
              THEN Sign(TextNum(aVal[2]) - TextNum(bVal[2]))
              ELSE Sign(TextNum(bVal[2]) - TextNum(aVal[2]))
    ELSE IF dir = "asc"
         THEN Sign(TextRank(ToStr(aVal)) - TextRank(ToStr(bVal)))
         ELSE Sign(TextRank(ToStr(bVal)) - TextRank(ToStr(aVal)))

\* Array.prototype.sort is stable; where the comparator contradicts itself
\* (two nulls: each is "after" the other) the order is the engine's choice.
SortedOrders(data, col, dir) ==
    IF col = NoColumn THEN {Identity(Len(data))}
    ELSE {p \in Perms(Len(data)) :
            \A x, y \in 1..Len(data) :
                x < y =>
                    LET c == Compare(RowVal(data[p[x]], col),
                                     RowVal(data[p[y]], col), dir)
                        d == Compare(RowVal(data[p[y]], col),
                                     RowVal(data[p[x]], col), dir)
                    IN  \/ c < 0
                        \/ c = 0 /\ p[x] < p[y]
                        \/ c > 0 /\ d > 0}

sortedData == [i \in 1..Len(tableData) |-> tableData[sortOrder[i]]]

\* page.tsx 363 and 430-525: the content of a tab is mounted while a dataset
\* is selected and the tab is the active one
Tabs == {"query", "data", "charts", "modify"}
Mounted(tab) == selectedDataset # NoDataset /\ activeTab = tab

\* DataTable.tsx 122-141: the table is shown when not loading and not empty
TableRendered ==
    /\ selectedDataset # NoDataset /\ activeTab = "data"
    /\ ~loading /\ tableData # <<>>

Columns == SeqToSet(selectedDataset.column_names)

\* DataTable.tsx 175-177, 182: the cell that holds the edit box
EditBoxShown ==
    /\ TableRendered
    /\ editingCell.row >= 0 /\ editingCell.row < Len(tableData)
    /\ editingCell.column \in Columns

\* a slip of DataTable.tsx 172: the rows are numbered within the page
RowNumber_InPage(currentPage, pageSize, rowIndex) == rowIndex + 1

\* DataTable.tsx 172: the row number shown at position rowIndex
RowNumber(currentPage, pageSize, rowIndex) ==
    (currentPage - 1) * pageSize + rowIndex + 1

\* DataTable.tsx 97: the row index saveEdit sends
EditRowIndex(currentPage, pageSize, row) == (currentPage - 1) * pageSize + row

\* DataTable.tsx 92-95: the value saveEdit sends
ParseEdit(text) == IF IsNumText(text) THEN Num(TextNum(text)) ELSE Str(text)

\* what the user may type into the edit box
EditTexts == {"5", "y"}

\* the table data changes: the memo is computed again
Resort(data, col, dir) == sortOrder' \in SortedOrders(data, col, dir)

\* the components under {selectedDataset && ...} are unmounted: their state
\* is gone and a pending handler of theirs sets state of no component
NoQueryResult ==
    [set |-> FALSE, query |-> "", result_type |-> "", data |-> Null,
     explanation |-> "", pandas_code |-> Null]
NoChart == [set |-> FALSE, config |-> NoConfig, data |-> <<>>, keys |-> <<>>]
NoResult == [set |-> FALSE, success |-> FALSE, message |-> "", rows_affected |-> 0]
UnmountTable ==
    /\ editingCell' = NoCell
    /\ editValue' = ""
    /\ sortColumn' = NoColumn
    /\ sortDirection' = "asc"
    /\ clickedIndex' = -1
UnmountEditor ==
    /\ command' = ""
    /\ editorLoading' = FALSE
    /\ editorResult' = NoResult
UnmountQuery ==
    /\ query' = ""
    /\ queryLoading' = FALSE
    /\ queryResult' = NoQueryResult
    /\ history' = <<>>
UnmountChart ==
    /\ chartQuery' = ""
    /\ chartLoading' = FALSE
    /\ chartData' = NoChart
    /\ chartError' = ""
Orphaned(reqs) ==
    {IF r.kind \in {"modify", "query", "chart"}
     THEN [r EXCEPT !.orphan = TRUE] ELSE r : r \in reqs}

\* page.tsx 430: another tab is chosen; the content of the tab that was
\* active is unmounted
setActiveTab ==
    /\ selectedDataset # NoDataset
    /\ \E tab \in Tabs \ {activeTab} : activeTab' = tab
    /\ UnmountTable /\ UnmountEditor /\ UnmountQuery /\ UnmountChart
    /\ sortOrder' = Identity(Len(tableData))
    /\ net' = Orphaned(net)
    /\ UNCHANGED <<handedOut, uploadVars, modelVars,
                   store, nextId, datasets, selectedDataset, tableData, tableOf,
                   pagination, suggestions, loading>>

(***************************************************************************)
(* File names (part_001 26-30).  A name is a string; Chars gives its       *)
(* characters, on which lastIndexOf, substring and toLowerCase work.       *)
(***************************************************************************)
FileNames == {"a.csv", "b.XLS", "c.x.xlsx", "d.txt", "e.csv.txt", "csv"}
Chars(name) ==
    CASE name = "a.csv" -> <<"a", ".", "c", "s", "v">>
      [] name = "b.XLS" -> <<"b", ".", "X", "L", "S">>
      [] name = "c.x.xlsx" -> <<"c", ".", "x", ".", "x", "l", "s", "x">>
      [] name = "d.txt" -> <<"d", ".", "t", "x", "t">>
      [] name = "e.csv.txt" -> <<"e", ".", "c", "s", "v", ".", "t", "x", "t">>
      [] name = "csv" -> <<"c", "s", "v">>

\* String.prototype.lastIndexOf: the 0-based index of the last c, or -1
lastIndexOf(cs, c) ==
    IF \E i \in 1..Len(cs) : cs[i] = c
    THEN (CHOOSE i \in 1..Len(cs) :
             cs[i] = c /\ \A j \in (i + 1)..Len(cs) : cs[j] # c) - 1
    ELSE -1

\* String.prototype.substring(start): a negative start counts as 0
substring(cs, start) ==
    SubSeq(cs, (IF start < 0 THEN 0 ELSE start) + 1, Len(cs))

\* String.prototype.toLowerCase, on the letters the names are made of
LowerChar(c) ==
    CASE c = "X" -> "x" [] c = "L" -> "l" [] c = "S" -> "s" [] OTHER -> c
toLowerCase(cs) == [i \in 1..Len(cs) |-> LowerChar(cs[i])]

\* part_001 27
validTypes == {<<".", "c", "s", "v">>, <<".", "x", "l", "s", "x">>,
               <<".", "x", "l", "s">>}

\* a slip of part_001 28: the extension is compared as it is written
fileExt_CaseSensitive(name) ==
    substring(Chars(name), lastIndexOf(Chars(name), "."))

\* part_001 28
fileExt(name) ==
    toLowerCase(substring(Chars(name), lastIndexOf(Chars(name), ".")))

\* part_001 31
InvalidTypeText == "Invalid file type. Please upload a CSV or Excel file."
\* part_001 47: the message of the error uploadFile has thrown
UploadFailedText == "Request failed"

\* FileUpload is rendered while no dataset is selected (page.tsx 243, 268);
\* when a dataset gets selected it is unmounted: its state is gone and a
\* pending onDrop of it sets state of no component
UnmountUpload ==
    /\ uploading' = FALSE
    /\ uploadedFile' = ""
    /\ uploadError' = ""
    /\ uploadSuccess' = FALSE
OrphanedUploads(reqs) ==
    {IF r.kind = "upload" THEN [r EXCEPT !.orphan = TRUE] ELSE r : r \in reqs}

(***************************************************************************)
(* Home (page.tsx).                                                        *)
(***************************************************************************)
Issue(r) == net' = net \cup {r} /\ nextId' = nextId + 1
Follow(r, new) == net' = (net \ {r}) \cup {new} /\ nextId' = nextId + 1
Settle(r) == net' = net \ {r} /\ UNCHANGED nextId

\* page.tsx 103-111: selectDataset up to its await, with reqs the requests
\* that stay in flight
selectDatasetIn(reqs, dataset) ==
    /\ selectedDataset' = dataset
    /\ loading' = TRUE
    /\ UnmountUpload
    /\ net' = OrphanedUploads(reqs) \cup {Request(nextId, "select", dataset.id)}
    /\ nextId' = nextId + 1
selectDataset(dataset) == selectDatasetIn(net, dataset)

\* page.tsx 283 in the dataset list, shown while no dataset is selected
ClickDataset ==
    /\ selectedDataset = NoDataset
    /\ CanStart
    /\ \E i \in 1..Len(datasets) : selectDataset(datasets[i])
    /\ UNCHANGED <<handedOut, modelVars,
                   store, activeTab, datasets, tableData, tableOf, pagination, suggestions,
                   tableVars, editorVars,
                   queryVars, chartVars>>

\* page.tsx 408-414: Switch Dataset
SwitchDataset ==
    /\ selectedDataset # NoDataset
    /\ selectedDataset' = NoDataset
    /\ UnmountTable /\ UnmountEditor /\ UnmountQuery /\ UnmountChart
    /\ sortOrder' = Identity(Len(tableData))
    /\ net' = Orphaned(net)
    /\ UNCHANGED <<handedOut, uploadVars, modelVars,
                   store, activeTab, nextId, datasets, tableData, tableOf, pagination, suggestions,
                   loading>>

\* page.tsx 123-128: handlePageChange up to its await, in the render whose
\* selected dataset is d and whose page size is size
handlePageChange(d, page, size, edit) ==
    /\ loading' = TRUE
    /\ Issue([Request(nextId, "page", d) EXCEPT
                !.page = page, !.size = size, !.edit = edit])

\* DataTable.tsx 245-246: the range "Showing ... to ..." of the controls
ShownFrom == (pagination.current_page - 1) * pagination.page_size + 1
ShownTo ==
    IF pagination.current_page * pagination.page_size < pagination.total_rows
    THEN pagination.current_page * pagination.page_size
    ELSE pagination.total_rows

\* a slip of DataTable.tsx 256, 265, 279, 288: no control is ever disabled
PageTargets_AlwaysEnabled ==
    IF ~(TableRendered /\ pagination.total_pages > 1) THEN {}
    ELSE {1, pagination.current_page - 1, pagination.current_page + 1,
          pagination.total_pages}

\* DataTable.tsx 242-292: the pages the enabled controls ask for
PageTargets ==
    IF ~(TableRendered /\ pagination.total_pages > 1) THEN {}
    ELSE (IF pagination.current_page # 1
          THEN {1, pagination.current_page - 1} ELSE {})
         \cup (IF pagination.current_page # pagination.total_pages
               THEN {pagination.current_page + 1, pagination.total_pages}
               ELSE {})

ClickPage ==
    /\ CanStart
    /\ \E p \in PageTargets :
          handlePageChange(selectedDataset.id, p, pagination.page_size, NoEdit)
    /\ UNCHANGED <<handedOut, uploadVars, modelVars,
                   store, activeTab, datasets, selectedDataset, tableData, tableOf, pagination,
                   suggestions, tableVars, editorVars, queryVars, chartVars>>

\* page.tsx 165-172: refreshData up to its await
refreshData(d, page, size) ==
    /\ loading' = TRUE
    /\ Issue([Request(nextId, "refresh", d) EXCEPT !.page = page, !.size = size])

\* page.tsx 230: the refresh button of the header
ClickRefresh ==
    /\ selectedDataset # NoDataset
    /\ CanStart
    /\ refreshData(selectedDataset.id, pagination.current_page,
                   pagination.page_size)
    /\ UNCHANGED <<handedOut, uploadVars, modelVars,
                   store, activeTab, datasets, selectedDataset, tableData, tableOf, pagination,
                   suggestions, tableVars, editorVars, queryVars, chartVars>>

\* a slip of page.tsx 139: an edit waits for the writes in flight
CellEditGuard_Exclusive ==
    /\ selectedDataset # NoDataset
    /\ ~\E r \in net : r.kind \in {"cell", "modify"}

\* page.tsx 139: if (!selectedDataset) return
CellEditGuard == selectedDataset # NoDataset

\* page.tsx 138-142: handleCellEdit up to its await
handleCellEdit(rowIndex, columnName, newValue) ==
    /\ CellEditGuard
    /\ Issue([Request(nextId, "cell", selectedDataset.id) EXCEPT
                !.row = rowIndex, !.col = columnName, !.val = newValue,
                !.page = pagination.current_page,
                !.size = pagination.page_size,
                !.clicked = clickedIndex,
                !.edit = [set |-> TRUE, row |-> rowIndex, col |-> columnName,
                          val |-> newValue, dirty |-> FALSE]])

\* page.tsx 150-154: handleDeleteDataset up to its await
handleDeleteDataset(d) ==
    Issue([Request(nextId, "delete", d) EXCEPT !.sel = selectedDataset.id])

\* page.tsx 304-307: the delete button of a dataset of the list; the user
\* may decline the confirmation
ClickDelete ==
    /\ selectedDataset = NoDataset
    /\ CanStart
    /\ \E i \in 1..Len(datasets), confirmed \in BOOLEAN :
          IF confirmed THEN handleDeleteDataset(datasets[i].id)
          ELSE UNCHANGED netVars
    /\ UNCHANGED <<handedOut, uploadVars, modelVars,
                   store, homeVars, tableVars, editorVars, queryVars, chartVars>>

(***************************************************************************)
(* DataTable (DataTable.tsx).                                              *)
(***************************************************************************)
\* DataTable.tsx 70-77, from a column header
handleSort ==
    /\ TableRendered
    /\ \E column \in Columns :
          /\ IF sortColumn = column
             THEN /\ sortDirection' = (IF sortDirection = "asc" THEN "desc" ELSE "asc")
                  /\ UNCHANGED sortColumn
             ELSE /\ sortColumn' = column
                  /\ sortDirection' = "asc"
          /\ Resort(tableData, sortColumn', sortDirection')
    /\ UNCHANGED <<handedOut, uploadVars, modelVars,
                   store, netVars, homeVars, editingCell, editValue,
                   clickedIndex, editorVars, queryVars, chartVars>>

\* DataTable.tsx 79-82, from the edit button of a cell that is not edited
startEditing ==
    /\ TableRendered
    /\ \E rowIndex \in 0..(Len(tableData) - 1), column \in Columns :
          /\ ~(editingCell.row = rowIndex /\ editingCell.column = column)
          /\ editingCell' = [row |-> rowIndex, column |-> column]
          /\ editValue' = ToStr(RowVal(sortedData[rowIndex + 1], column))
          /\ clickedIndex' = (pagination.current_page - 1) * pagination.page_size
                             + sortOrder[rowIndex + 1] - 1
    /\ UNCHANGED <<handedOut, uploadVars, modelVars,
                   store, netVars, homeVars, sortColumn, sortDirection,
                   sortOrder, editorVars, queryVars, chartVars>>

\* DataTable.tsx 186: typing in the edit box
setEditValue ==
    /\ EditBoxShown
    /\ \E text \in EditTexts : editValue' = text
    /\ UNCHANGED <<handedOut, uploadVars, modelVars,
                   store, netVars, homeVars, editingCell, sortColumn,
                   sortDirection, sortOrder, clickedIndex, editorVars, queryVars, chartVars>>

\* DataTable.tsx 84-87, from Escape or the X button
cancelEditing ==
    /\ EditBoxShown
    /\ editingCell' = NoCell
    /\ editValue' = ""
    /\ clickedIndex' = -1
    /\ UNCHANGED <<handedOut, uploadVars, modelVars,
                   store, netVars, homeVars, sortColumn, sortDirection,
                   sortOrder, editorVars, queryVars, chartVars>>

\* DataTable.tsx 89-103, from Enter or the check button; onCellEdit is
\* Home's handleCellEdit (page.tsx 486)
saveEdit ==
    /\ EditBoxShown
    /\ CanStart
    /\ handleCellEdit(EditRowIndex(pagination.current_page,
                                   pagination.page_size, editingCell.row),
                      editingCell.column, ParseEdit(editValue))
    /\ editingCell' = NoCell
    /\ editValue' = ""
    /\ clickedIndex' = -1
    /\ UNCHANGED <<handedOut, uploadVars, modelVars,
                   store, homeVars, sortColumn, sortDirection, sortOrder,
                   editorVars, queryVars, chartVars>>

\* the keys pressed in the edit box
Keys == {"Enter", "Escape", "a"}

\* a slip of DataTable.tsx 106-110: Escape saves as Enter does
handleKeyDown_EscapeSaves(key) ==
    IF key \in {"Enter", "Escape"} THEN saveEdit ELSE UNCHANGED vars

\* DataTable.tsx 105-111
handleKeyDown(key) ==
    IF key = "Enter" THEN saveEdit
    ELSE IF key = "Escape" THEN cancelEditing
    ELSE UNCHANGED vars

\* DataTable.tsx 187: a key is pressed in the edit box
onKeyDown ==
    /\ EditBoxShown
    /\ \E key \in Keys : handleKeyDown(key)

(***************************************************************************)
(* DataEditor (part_000).                                                  *)
(***************************************************************************)
\* what the user may type as a command
CommandTexts == {" ", "fill b", "drop nulls", "add total", "sum region"}
Trim(text) ==
    IF text = " " THEN "" ELSE IF text = " show a " THEN "show a" ELSE text

\* a slip of part_000 32-38: the catch branch reports a success
ModifyErrorResult_Success(message) ==
    [set |-> TRUE, success |-> TRUE, message |-> message, rows_affected |-> 0]

\* part_000 32-38: the result the catch branch builds
ModifyErrorResult(message) ==
    [set |-> TRUE, success |-> FALSE, message |-> message, rows_affected |-> 0]

\* part_000 63 and 100: typing, or an example command
setCommand ==
    /\ Mounted("modify")
    /\ \E text \in CommandTexts : command' = text
    /\ UNCHANGED <<handedOut, uploadVars, modelVars,
                   store, netVars, homeVars, tableVars, editorLoading, editorResult, queryVars, chartVars>>

\* part_000 19-26: handleModify up to its await; onModifySuccess is the
\* refreshData of the render (page.tsx 517-521)
handleModify ==
    /\ Mounted("modify")
    /\ ~(Trim(command) = "" \/ editorLoading)
    /\ CanStart
    /\ editorLoading' = TRUE
    /\ editorResult' = NoResult
    /\ Issue([Request(nextId, "modify", selectedDataset.id) EXCEPT
                !.text = Trim(command),
                !.page = pagination.current_page,
                !.size = pagination.page_size])
    /\ UNCHANGED <<handedOut, uploadVars, modelVars,
                   store, homeVars, tableVars, command, queryVars,
                   chartVars>>

\* part_000 157-166: Make another change
makeAnotherChange ==
    /\ Mounted("modify")
    /\ editorResult.set /\ editorResult.success
    /\ editorResult' = NoResult
    /\ command' = ""
    /\ UNCHANGED <<handedOut, uploadVars, modelVars,
                   store, netVars, homeVars, tableVars, editorLoading, queryVars, chartVars>>

(***************************************************************************)
(* QueryInput (QueryInput.tsx 1-256).                                      *)
(***************************************************************************)
\* what the user may type as a question
QueryTexts ==
    {" ", "count rows", "show a", " show a ", "describe", "sum region"}

\* QueryInput.tsx 45: the entries the history keeps
HistoryMax == 10

Take(seq, n) == IF Len(seq) <= n THEN seq ELSE SubSeq(seq, 1, n)

\* a slip of QueryInput.tsx 44: the earlier entry of the question is kept
NewHistory_Unfiltered(prev, q) == Take(<<q>> \o prev, HistoryMax)

\* QueryInput.tsx 43-46
NewHistory(prev, q) ==
    Take(<<q>> \o SelectSeq(prev, LAMBDA h : h # q), HistoryMax)

\* a slip of QueryInput.tsx 47-55: the rejection is not caught
QueryErrorResult_Escapes(q, message) == NoQueryResult

\* QueryInput.tsx 48-55: the result the catch branch builds
QueryErrorResult(q, message) ==
    [set |-> TRUE, query |-> q, result_type |-> "error", data |-> Null,
     explanation |-> message, pandas_code |-> Null]

\* a slip of QueryInput.tsx 56-58: loading is reset at the end of try only
SubmitFinally_TryOnly(ok) == ~ok

\* QueryInput.tsx 56-58: what the finally branch sets loading to
SubmitFinally(ok) == FALSE

\* QueryInput.tsx 65-115: what renderResult shows for the result
RenderedKind(result) ==
    IF ~result.set THEN "nothing"
    ELSE IF result.result_type \in ResultKinds THEN result.result_type
    ELSE "json"

\* QueryInput.tsx 127, 62 and 187: typing, a suggestion or a history entry
setQuery ==
    /\ Mounted("query")
    /\ \E text \in QueryTexts : query' = text
    /\ UNCHANGED <<handedOut, uploadVars, modelVars,
                   store, netVars, homeVars, tableVars, editorVars,
                   queryLoading, queryResult, history, chartVars>>

\* a slip of QueryInput.tsx 32: loading is not looked at
SubmitIgnored_BlankOnly(text, isLoading) == Trim(text) = ""

\* QueryInput.tsx 32: if (!query.trim() || loading) return
SubmitIgnored(text, isLoading) == Trim(text) = "" \/ isLoading

\* QueryInput.tsx 30-37: handleSubmit up to its await
handleSubmit ==
    /\ Mounted("query")
    /\ ~SubmitIgnored(query, queryLoading)
    /\ CanStart
    /\ queryLoading' = TRUE
    /\ queryResult' = NoQueryResult
    /\ Issue([Request(nextId, "query", selectedDataset.id) EXCEPT
                !.text = Trim(query)])
    /\ UNCHANGED <<handedOut, uploadVars, modelVars,
                   store, homeVars, tableVars, editorVars, query, history,
                   chartVars>>

(***************************************************************************)
(* ChartDisplay (QueryInput.tsx 258-644).                                  *)
(***************************************************************************)
\* what the user may type as a chart request
ChartTexts == {" ", "bar a by b", "pie of a", "bar sales by region"}

\* a slip of QueryInput.tsx 316: every answer is taken as a chart
ChartAccepted_Always(resp) == TRUE

\* QueryInput.tsx 316: the answer is taken as a chart
ChartAccepted(resp) == resp.success

\* QueryInput.tsx 319: result.error || "Failed to generate chart"
ChartErrorText(error) ==
    IF error = "" THEN "Failed to generate chart" ELSE error

\* QueryInput.tsx 329-336: nothing is drawn without data
ChartDrawn == chartData.set /\ chartData.data # <<>>

\* QueryInput.tsx 338-339: the keys renderChart gives the axes
XKey == IF chartData.config.x_axis # "" THEN chartData.config.x_axis
        ELSE chartData.keys[1]
YKey == IF chartData.config.y_axis # "" THEN chartData.config.y_axis
        ELSE IF Len(chartData.keys) >= 2 THEN chartData.keys[2]
        ELSE "count"

\* QueryInput.tsx 541 and 568: typing, or an example
setChartQuery ==
    /\ Mounted("charts")
    /\ \E text \in ChartTexts : chartQuery' = text
    /\ UNCHANGED <<handedOut, uploadVars, modelVars,
                   store, netVars, homeVars, tableVars, editorVars, queryVars,
                   chartLoading, chartData, chartError>>

\* QueryInput.tsx 308-312: handleGenerate up to its await
handleGenerate ==
    /\ Mounted("charts")
    /\ ~(Trim(chartQuery) = "" \/ chartLoading)
    /\ CanStart
    /\ chartLoading' = TRUE
    /\ chartError' = ""
    /\ Issue([Request(nextId, "chart", selectedDataset.id) EXCEPT
                !.text = Trim(chartQuery)])
    /\ UNCHANGED <<handedOut, uploadVars, modelVars,
                   store, homeVars, tableVars, editorVars, queryVars,
                   chartQuery, chartData>>

(***************************************************************************)
(* The network and the service.  A request that was sent is answered by    *)
(* the service, or fails on the way to it; the answer to a write may be    *)
(* lost on the way back, and axios then rejects although the write was     *)
(* applied.                                                                *)
(***************************************************************************)
Answer(r, ok, resp) == [r EXCEPT !.phase = "done", !.ok = ok, !.resp = resp]

\* a write to dataset d: an acknowledged cell update that has not been read
\* back yet is no longer the last write to its dataset
MarkDirty(reqs, d) ==
    {IF /\ r.ds = d /\ r.edit.set
        /\ \/ r.kind = "cell" /\ r.phase = "done"
           \/ r.kind = "page" /\ r.phase = "sent"
     THEN [r EXCEPT !.edit.dirty = TRUE]
     ELSE IF /\ r.ds = d /\ r.phase = "done"
             /\ r.kind \in {"select", "page", "refresh"}
     THEN [r EXCEPT !.stale = TRUE]
     ELSE r : r \in reqs}

NetFail ==
    /\ \E r \in Sent : net' = (net \ {r}) \cup {Answer(r, FALSE, NoResp)}
    /\ UNCHANGED <<handedOut, uploadVars, modelVars,
                   store, nextId, homeVars, tableVars, editorVars,
                   queryVars, chartVars>>

ServerRead ==
    /\ \E r \in Sent :
          /\ r.kind \in {"select", "page", "refresh"}
          /\ net' = (net \ {r}) \cup
                {IF store[r.ds].exists
                 THEN Answer(r, TRUE,
                        [NoResp EXCEPT
                           !.info = ServerGetDataset(store, r.ds, r.page, r.size).info,
                           !.data = ServerGetDataset(store, r.ds, r.page, r.size).data,
                           !.pagination =
                              ServerGetDataset(store, r.ds, r.page, r.size).pagination])
                 ELSE Answer(r, FALSE, NoResp)}
    /\ UNCHANGED <<handedOut, uploadVars, modelVars,
                   store, nextId, homeVars, tableVars, editorVars,
                   queryVars, chartVars>>

ServerListDatasets ==
    /\ \E r \in Sent :
          /\ r.kind = "list"
          /\ net' = (net \ {r}) \cup
                {Answer(r, TRUE, [NoResp EXCEPT !.datasets = ServerList(store)])}
    /\ UNCHANGED <<handedOut, uploadVars, modelVars,
                   store, nextId, homeVars, tableVars, editorVars,
                   queryVars, chartVars>>

ServerCell ==
    /\ \E r \in Sent, lost \in BOOLEAN :
          /\ r.kind = "cell"
          /\ IF ServerCellExists(store, r.ds, r.row, r.col)
             THEN /\ store' = ServerUpdateCell(store, r.ds, r.row, r.col, r.val)
                  /\ net' = MarkDirty(net \ {r}, r.ds) \cup
                        {[Answer(r, ~lost, [NoResp EXCEPT !.success = TRUE])
                            EXCEPT !.applied = TRUE]}
             ELSE /\ net' = (net \ {r}) \cup {Answer(r, FALSE, NoResp)}
                  /\ UNCHANGED store
    /\ UNCHANGED <<handedOut, uploadVars, modelVars,
                   nextId, homeVars, tableVars, editorVars,
                   queryVars, chartVars>>

ServerDeleteDataset ==
    /\ \E r \in Sent, lost \in BOOLEAN :
          /\ r.kind = "delete"
          /\ IF store[r.ds].exists
             THEN /\ store' = ServerDelete(store, r.ds)
                  /\ net' = MarkDirty(net \ {r}, r.ds) \cup
                        {[Answer(r, ~lost, NoResp) EXCEPT !.applied = TRUE]}
             ELSE /\ net' = (net \ {r}) \cup {Answer(r, FALSE, NoResp)}
                  /\ UNCHANGED store
    /\ UNCHANGED <<handedOut, uploadVars, modelVars,
                   nextId, homeVars, tableVars, editorVars,
                   queryVars, chartVars>>

\* generated: the language model produced a usable operation
ServerModifyData ==
    /\ \E r \in Sent, generated \in BOOLEAN, lost \in BOOLEAN :
          /\ r.kind = "modify"
          /\ LET res == ServerModifyResult(store, r.ds, r.text, generated)
             IN  /\ store' = IF res.success
                             THEN ServerModify(store, r.ds, r.text) ELSE store
                 /\ net' = (IF res.success THEN MarkDirty(net \ {r}, r.ds)
                            ELSE net \ {r}) \cup
                        {[Answer(r, ~lost,
                             [NoResp EXCEPT
                                !.success = res.success,
                                !.message = res.message,
                                !.rows_affected = res.rows_affected])
                            EXCEPT !.applied = res.success]}
    /\ UNCHANGED <<handedOut, uploadVars, modelVars,
                   nextId, homeVars, tableVars, editorVars,
                   queryVars, chartVars>>

ServerQueryDataset ==
    /\ \E r \in Sent, generated \in BOOLEAN :
          /\ r.kind = "query"
          /\ net' = (net \ {r}) \cup
                {IF store[r.ds].exists
                 THEN LET res == ServerQuery(store, r.ds, r.text, generated)
                      IN  Answer(r, TRUE,
                            [NoResp EXCEPT
                               !.result_type = res.result_type,
                               !.value = res.value,
                               !.message = res.message,
                               !.pandas_code = res.pandas_code])
                 ELSE Answer(r, FALSE, NoResp)}
    /\ UNCHANGED <<handedOut, uploadVars, modelVars,
                   store, nextId, homeVars, tableVars, editorVars,
                   queryVars, chartVars>>

ServerGenerateChart ==
    /\ \E r \in Sent, generated \in BOOLEAN :
          /\ r.kind = "chart"
          /\ net' = (net \ {r}) \cup
                {IF store[r.ds].exists
                 THEN LET res == ServerChart(store, r.ds, r.text, generated)
                      IN  Answer(r, TRUE,
                            [NoResp EXCEPT
                               !.success = res.success,
                               !.config = res.config,
                               !.data = res.data,
                               !.keys = res.keys,
                               !.message = res.message])
                 ELSE Answer(r, FALSE, NoResp)}
    /\ UNCHANGED <<handedOut, uploadVars, modelVars,
                   store, nextId, homeVars, tableVars, editorVars,
                   queryVars, chartVars>>

(***************************************************************************)
(* The handlers after their await.  The catch branches of Home only call   *)
(* console.error: they change no state.                                    *)
(***************************************************************************)
\* page.tsx 89-96: loadDatasets
loadDatasetsDone ==
    /\ \E r \in Done :
          /\ r.kind = "list"
          /\ Settle(r)
          /\ datasets' = IF r.ok THEN r.resp.datasets ELSE datasets
    /\ UNCHANGED <<handedOut, uploadVars, modelVars,
                   store, activeTab, selectedDataset, tableData, tableOf, pagination, suggestions,
                   loading, tableVars, editorVars, queryVars, chartVars>>

\* page.tsx 113-120: selectDataset
selectDatasetDone ==
    /\ \E r \in Done :
          /\ r.kind = "select"
          /\ Settle(r)
          /\ IF r.ok
             THEN /\ tableData' = r.resp.data
                  /\ tableOf' = r.ds
                  /\ pagination' = r.resp.pagination
                  /\ suggestions' = r.ds
                  /\ Resort(tableData', sortColumn, sortDirection)
             ELSE UNCHANGED <<tableData, tableOf, pagination, suggestions, sortOrder>>
          /\ loading' = FALSE
    /\ UNCHANGED <<handedOut, uploadVars, modelVars,
                   store, activeTab, datasets, selectedDataset, editingCell, editValue,
                   sortColumn, sortDirection, clickedIndex, editorVars,
                   queryVars, chartVars>>

\* page.tsx 129-135: handlePageChange
handlePageChangeDone ==
    /\ \E r \in Done :
          /\ r.kind = "page"
          /\ Settle(r)
          /\ IF r.ok
             THEN /\ tableData' = r.resp.data
                  /\ tableOf' = r.ds
                  /\ pagination' = r.resp.pagination
                  /\ Resort(tableData', sortColumn, sortDirection)
             ELSE UNCHANGED <<tableData, tableOf, pagination, sortOrder>>
          /\ loading' = FALSE
    /\ UNCHANGED <<handedOut, uploadVars, modelVars,
                   store, activeTab, datasets, selectedDataset, suggestions, editingCell,
                   editValue, sortColumn, sortDirection, clickedIndex,
                   editorVars, queryVars, chartVars>>

\* a slip of page.tsx 175-176: the dataset info is kept, as in selectDataset
RefreshedInfo_Kept(current, resp) == current

\* page.tsx 175-176: the dataset info refreshData sets
RefreshedInfo(current, resp) == resp.info

\* page.tsx 174-183: refreshData
refreshDataDone ==
    /\ \E r \in Done :
          /\ r.kind = "refresh"
          /\ Settle(r)
          /\ IF r.ok
             THEN /\ selectedDataset' = RefreshedInfo(selectedDataset, r.resp)
                  /\ tableData' = r.resp.data
                  /\ tableOf' = r.ds
                  /\ pagination' = r.resp.pagination
                  /\ suggestions' = r.ds
                  /\ Resort(tableData', sortColumn, sortDirection)
             ELSE UNCHANGED <<selectedDataset, tableData, tableOf, pagination,
                              suggestions, sortOrder>>
          /\ loading' = FALSE
    /\ UNCHANGED <<handedOut, uploadVars, modelVars,
                   store, activeTab, datasets, editingCell, editValue, sortColumn,
                   sortDirection, clickedIndex, editorVars, queryVars,
                   chartVars>>

\* a slip of page.tsx 144: the first page is fetched
RefetchedPage_First(currentPage) == 1

\* page.tsx 144: the page handleCellEdit fetches after the update
RefetchedPage(currentPage) == currentPage

\* page.tsx 143-147: handleCellEdit; the handlePageChange it calls is the
\* one of the render handleCellEdit was created in
handleCellEditDone ==
    /\ \E r \in Done :
          /\ r.kind = "cell"
          /\ IF r.ok
             THEN /\ loading' = TRUE
                  /\ Follow(r, [Request(nextId, "page", r.ds) EXCEPT
                                  !.page = RefetchedPage(r.page),
                                  !.size = r.size, !.edit = r.edit])
             ELSE /\ Settle(r)
                  /\ UNCHANGED loading
    /\ UNCHANGED <<handedOut, uploadVars, modelVars,
                   store, activeTab, datasets, selectedDataset, tableData, tableOf, pagination,
                   suggestions, tableVars, editorVars, queryVars, chartVars>>

\* page.tsx 155-162: handleDeleteDataset; selectedDataset is the one of the
\* render the handler was created in
handleDeleteDatasetDone ==
    /\ \E r \in Done :
          /\ r.kind = "delete"
          /\ Settle(r)
          /\ IF r.ok
             THEN /\ datasets' = SelectSeq(datasets, LAMBDA d : d.id # r.ds)
                  /\ IF r.sel = r.ds
                     THEN /\ selectedDataset' = NoDataset
                          /\ tableData' = <<>>
                          /\ tableOf' = "none"
                          /\ UnmountTable /\ UnmountEditor
                          /\ UnmountQuery /\ UnmountChart
                          /\ sortOrder' = <<>>
                     ELSE UNCHANGED <<selectedDataset, tableData, tableOf, tableVars,
                                      editorVars, queryVars, chartVars>>
             ELSE UNCHANGED <<datasets, selectedDataset, tableData, tableOf, tableVars,
                              editorVars, queryVars, chartVars>>
    /\ UNCHANGED <<handedOut, uploadVars, modelVars,
                   store, activeTab, pagination, suggestions, loading>>

\* part_000 27-41: handleModify; a set state of an unmounted DataEditor
\* does nothing, the refreshData it was given still runs
handleModifyDone ==
    /\ \E r \in Done :
          /\ r.kind = "modify"
          /\ IF r.orphan THEN UNCHANGED <<editorResult, editorLoading>>
             ELSE /\ editorResult' =
                        IF r.ok
                        THEN [set |-> TRUE, success |-> r.resp.success,
                              message |-> r.resp.message,
                              rows_affected |-> r.resp.rows_affected]
                        ELSE ModifyErrorResult("Network Error")
                  /\ editorLoading' = FALSE
          /\ IF r.ok /\ r.resp.success
             THEN /\ loading' = TRUE
                  /\ Follow(r, [Request(nextId, "refresh", r.ds) EXCEPT
                                  !.page = r.page, !.size = r.size])
             ELSE /\ Settle(r)
                  /\ UNCHANGED loading
    /\ UNCHANGED <<handedOut, uploadVars, modelVars,
                   store, activeTab, datasets, selectedDataset, tableData, tableOf, pagination,
                   suggestions, tableVars, command, queryVars, chartVars>>

\* QueryInput.tsx 38-58: handleSubmit
handleSubmitDone ==
    /\ \E r \in Done :
          /\ r.kind = "query"
          /\ Settle(r)
          /\ IF r.orphan THEN UNCHANGED <<queryResult, history, queryLoading>>
             ELSE /\ IF r.ok
                     THEN /\ queryResult' =
                                [set |-> TRUE, query |-> r.text,
                                 result_type |-> r.resp.result_type,
                                 data |-> r.resp.value,
                                 explanation |-> r.resp.message,
                                 pandas_code |-> r.resp.pandas_code]
                          /\ history' = NewHistory(history, r.text)
                     ELSE /\ queryResult' =
                                QueryErrorResult(r.text, "Network Error")
                          /\ UNCHANGED history
                  /\ queryLoading' = SubmitFinally(r.ok)
    /\ UNCHANGED <<handedOut, uploadVars, modelVars,
                   store, homeVars, tableVars, editorVars, query, chartVars>>

\* QueryInput.tsx 313-325: handleGenerate
handleGenerateDone ==
    /\ \E r \in Done :
          /\ r.kind = "chart"
          /\ Settle(r)
          /\ IF r.orphan THEN UNCHANGED <<chartData, chartError, chartLoading>>
             ELSE /\ IF r.ok
                     THEN IF ChartAccepted(r.resp)
                          THEN /\ chartData' =
                                     [set |-> TRUE, config |-> r.resp.config,
                                      data |-> r.resp.data,
                                      keys |-> r.resp.keys]
                               /\ UNCHANGED chartError
                          ELSE /\ chartError' = ChartErrorText(r.resp.message)
                               /\ UNCHANGED chartData
                     ELSE /\ chartError' = "Network Error"
                          /\ UNCHANGED chartData
                  /\ chartLoading' = FALSE
    /\ UNCHANGED <<handedOut, uploadVars, modelVars,
                   store, homeVars, tableVars, editorVars, queryVars,
                   chartQuery>>

\* what the page shows for a failed request of a kind: QueryInput.tsx
\* 101-106 and 579-583, part_000 112-155; the catch branches of Home
\* (page.tsx 92-94, 116-117, 131-132, 145-146, 160-161, 180-181) only call
\* console.error and Home renders no error
ErrorShown(kind, qResult, cError, eResult) ==
    CASE kind = "query" ->
            /\ qResult.set /\ qResult.result_type = "error"
            /\ qResult.explanation # ""
      [] kind = "chart" -> cError # ""
      [] kind = "modify" ->
            eResult.set /\ ~eResult.success /\ eResult.message # ""
      [] OTHER -> FALSE

(***************************************************************************)
(* FileUpload (part_001 15-72) and the upload of the service.              *)
(***************************************************************************)
\* the dataset the service makes of an uploaded file (modelled from the
\* specification): one column, one row
UploadedDataset ==
    [exists |-> TRUE, columns |-> <<"a">>, rows |-> <<[a |-> Num(7)]>>]

\* ids the service has not given to a dataset yet
FreshIds == DatasetIds \ handedOut
PendingUploads == {r \in net : r.kind = "upload" /\ r.phase = "sent"}

\* part_001 21-40: onDrop up to its await
onDrop(acceptedFiles) ==
    /\ IF acceptedFiles = <<>>
       THEN UNCHANGED <<netVars, uploadVars>>
       ELSE LET file == acceptedFiles[1]
            IN  IF fileExt(file) \notin validTypes
                THEN /\ uploadError' = InvalidTypeText
                     /\ UNCHANGED <<netVars, uploading, uploadedFile,
                                    uploadSuccess>>
                ELSE /\ CanStart
                     /\ Cardinality(FreshIds) > Cardinality(PendingUploads)
                     /\ uploadedFile' = file
                     /\ uploadError' = ""
                     /\ uploadSuccess' = FALSE
                     /\ uploading' = TRUE
                     /\ Issue([Request(nextId, "upload", "none") EXCEPT
                                 !.text = file])
    /\ UNCHANGED <<serverVars, modelVars, homeVars, tableVars, editorVars,
                   queryVars, chartVars>>

\* part_001 57-66: react-dropzone calls onDrop with the files it accepted,
\* at most one (part_001 64), unless it is disabled (part_001 65)
DropFiles ==
    /\ selectedDataset = NoDataset
    /\ ~uploading
    /\ \E acceptedFiles \in {<<>>} \cup {<<f>> : f \in FileNames} :
          onDrop(acceptedFiles)

\* part_001 68-72, the button of part_001 141-152
resetUpload ==
    /\ selectedDataset = NoDataset
    /\ uploadedFile # "" /\ ~uploading
    /\ uploadedFile' = ""
    /\ uploadError' = ""
    /\ uploadSuccess' = FALSE
    /\ UNCHANGED <<serverVars, netVars, modelVars, homeVars, tableVars,
                   editorVars, queryVars, chartVars, uploading>>

\* POST /api/upload: the service rejects the file (upload-validation
\* error), or stores it as a new dataset under an id of its own and answers
\* with the dataset's info and its first rows
ServerUpload ==
    /\ \E r \in Sent, accepted \in BOOLEAN, lost \in BOOLEAN :
          /\ r.kind = "upload"
          /\ IF accepted
             THEN LET d == CHOOSE id \in FreshIds : TRUE
                      st == [store EXCEPT ![d] = UploadedDataset]
                  IN  /\ store' = st
                      /\ handedOut' = handedOut \cup {d}
                      /\ net' = (net \ {r}) \cup
                            {[Answer(r, ~lost,
                                [NoResp EXCEPT
                                   !.info = ServerInfo(st, d),
                                   !.data = ServerGetDataset(st, d, 1, PageSize).data])
                                EXCEPT !.applied = TRUE, !.ds = d]}
             ELSE /\ net' = (net \ {r}) \cup {Answer(r, FALSE, NoResp)}
                  /\ UNCHANGED <<store, handedOut>>
    /\ UNCHANGED <<uploadVars, modelVars, nextId, homeVars, tableVars,
                   editorVars, queryVars, chartVars>>

\* page.tsx 98-101: handleUploadSuccess, called by onDrop with r the request
\* that was answered
handleUploadSuccess(r, data) ==
    /\ datasets' = <<data.info>> \o datasets
    /\ selectDatasetIn(net \ {r}, data.info)

\* part_001 42-52: onDrop after its await.  The dataset handleUploadSuccess
\* selects unmounts FileUpload in the same render.
onDropDone ==
    /\ \E r \in Done :
          /\ r.kind = "upload"
          /\ IF r.ok
             THEN handleUploadSuccess(r, r.resp)
             ELSE /\ Settle(r)
                  /\ IF r.orphan THEN UNCHANGED <<uploadError, uploading>>
                     ELSE /\ uploadError' = UploadFailedText
                          /\ uploading' = FALSE
                  /\ UNCHANGED <<datasets, selectedDataset, loading,
                                 uploadedFile, uploadSuccess>>
    /\ UNCHANGED <<serverVars, modelVars, tableData, tableOf, pagination,
                   suggestions, activeTab, tableVars, editorVars, queryVars,
                   chartVars>>

(***************************************************************************)
(* The model selection of Home (page.tsx 54-87, 213-218) and ModelSelector *)
(* (part_001 186-304).  The answer of GET /api/models is modelled from     *)
(* the specification: the models the service is configured with and its    *)
(* default, one of them.  A model is its id, and the empty string stands   *)
(* for no entry in localStorage.                                           *)
(***************************************************************************)
ModelConfigs ==
    {[models |-> <<"m1", "m2">>, default |-> "m1"],
     [models |-> <<"m2", "m3">>, default |-> "m3"],
     [models |-> <<"m1", "m2", "m3">>, default |-> "m2"],
     [models |-> <<"m3">>, default |-> "m3"]}
SavedModels == {"", "m1", "m2", "m3", "old"}

\* the request of loadModels; prev is the model that was selected when the
\* page was loaded again
ModelRequest(prev) ==
    [phase |-> "sent", ok |-> FALSE, models |-> <<>>, default |-> "",
     prev |-> prev]

\* a slip of page.tsx 77: a saved model is taken without looking it up
PreferredOrDefault_Saved(saved, list, default) ==
    IF saved # "" THEN saved ELSE default

\* page.tsx 76-81
PreferredOrDefault(saved, list, default) ==
    IF saved # "" /\ \E i \in 1..Len(list) : list[i] = saved
    THEN saved ELSE default

\* page.tsx 65-69: the effect that runs when selectedModel has changed
Persisted(selected, stored) == IF selected # "" THEN selected ELSE stored

ServerModels ==
    /\ modelReq.phase = "sent"
    /\ \E ok \in BOOLEAN :
          modelReq' = [modelReq EXCEPT
                         !.phase = "done", !.ok = ok,
                         !.models = IF ok THEN modelConfig.models ELSE <<>>,
                         !.default = IF ok THEN modelConfig.default ELSE ""]
    /\ UNCHANGED <<serverVars, netVars, uploadVars, homeVars, tableVars,
                   editorVars, queryVars, chartVars, models, selectedModel,
                   modelsLoading, preferredModel, modelConfig>>

\* page.tsx 71-87: loadModels after its await
loadModelsDone ==
    /\ modelReq.phase = "done"
    /\ modelReq' = [modelReq EXCEPT !.phase = "none"]
    /\ IF modelReq.ok
       THEN /\ models' = modelReq.models
            /\ selectedModel' = PreferredOrDefault(preferredModel,
                                   modelReq.models, modelReq.default)
            /\ preferredModel' = Persisted(selectedModel', preferredModel)
       ELSE UNCHANGED <<models, selectedModel, preferredModel>>
    /\ modelsLoading' = FALSE
    /\ UNCHANGED <<serverVars, netVars, uploadVars, homeVars, tableVars,
                   editorVars, queryVars, chartVars, modelConfig>>

\* part_001 231-235, 267-273: a model of the list is clicked
onModelChange ==
    /\ ~modelsLoading /\ Len(models) > 0
    /\ \E i \in 1..Len(models) :
          /\ selectedModel' = models[i]
          /\ preferredModel' = Persisted(selectedModel', preferredModel)
    /\ UNCHANGED <<serverVars, netVars, uploadVars, homeVars, tableVars,
                   editorVars, queryVars, chartVars, models, modelsLoading,
                   modelConfig, modelReq>>

\* the page is loaded again: Home is constructed anew (page.tsx 54-56) and
\* its mount effect calls loadModels (page.tsx 59-62); localStorage is kept
Reload ==
    /\ selectedDataset = NoDataset /\ net = {Request(0, "list", "none")}
    /\ models' = <<>>
    /\ selectedModel' = ""
    /\ modelsLoading' = TRUE
    /\ modelReq' = ModelRequest(selectedModel)
    /\ UNCHANGED <<serverVars, netVars, uploadVars, homeVars, tableVars,
                   editorVars, queryVars, chartVars, preferredModel,
                   modelConfig>>

\* Home after construction with its loadModels in flight
InitModelVars(saved, config) ==
    /\ models = <<>>
    /\ selectedModel = ""
    /\ modelsLoading = TRUE
    /\ preferredModel = saved
    /\ modelConfig = config
    /\ modelReq = ModelRequest("")

\* FileUpload after construction
InitUploadVars ==
    /\ uploading = FALSE
    /\ uploadedFile = ""
    /\ uploadError = ""
    /\ uploadSuccess = FALSE

(***************************************************************************)
(* The page is opened: nothing is selected and the mount effect            *)
(* (page.tsx 59-62) has called loadDatasets.                               *)
(***************************************************************************)

Init ==
    /\ store = InitStore
    /\ net = {Request(0, "list", "none")}
    /\ nextId = 1
    /\ datasets = <<>>
    /\ selectedDataset = NoDataset
    /\ tableData = <<>>
    /\ tableOf = "none"
    /\ pagination = NoPagination
    /\ suggestions = "none"
    /\ loading = FALSE
    /\ activeTab = "query"
    /\ editingCell = NoCell
    /\ editValue = ""
    /\ sortColumn = NoColumn
    /\ sortDirection = "asc"
    /\ sortOrder = <<>>
    /\ clickedIndex = -1
    /\ command = ""
    /\ editorLoading = FALSE
    /\ editorResult = NoResult
    /\ query = ""
    /\ queryLoading = FALSE
    /\ queryResult = NoQueryResult
    /\ history = <<>>
    /\ chartQuery = ""
    /\ chartLoading = FALSE
    /\ chartData = NoChart
    /\ chartError = ""
    /\ handedOut = DatasetIds
    /\ InitUploadVars
    /\ InitModelVars("", [models |-> <<"m1", "m2">>, default |-> "m1"])

\* DataTable.tsx 96-100 seen from Home: the table that is shown calls
\* onCellEdit for a cell of the page, with the value of some text
onCellEdit ==
    /\ TableRendered
    /\ CanStart
    /\ \E row \in 0..(Len(tableData) - 1), column \in Columns,
          text \in EditTexts :
          handleCellEdit(EditRowIndex(pagination.current_page,
                                      pagination.page_size, row),
                         column, ParseEdit(text))
    /\ UNCHANGED <<handedOut, uploadVars, modelVars,
                   store, homeVars, tableVars, editorVars, queryVars,
                   chartVars>>

\* Home, DataEditor and the service
Next ==
    \/ ClickDataset \/ SwitchDataset \/ setActiveTab \/ ClickPage
    \/ ClickRefresh
    \/ ClickDelete \/ onCellEdit
    \/ setCommand \/ handleModify \/ makeAnotherChange
    \/ NetFail \/ ServerRead \/ ServerListDatasets \/ ServerCell
    \/ ServerDeleteDataset \/ ServerModifyData
    \/ loadDatasetsDone \/ selectDatasetDone \/ handlePageChangeDone
    \/ refreshDataDone \/ handleCellEditDone \/ handleDeleteDatasetDone
    \/ handleModifyDone

Spec == Init /\ [][Next]_vars

\* DataTable with the first dataset selected and its first page loaded
InitTable ==
    /\ store = InitStore
    /\ net = {}
    /\ nextId = 2
    /\ datasets = ServerList(InitStore)
    /\ selectedDataset = ServerInfo(InitStore, "d1")
    /\ tableData = ServerGetDataset(InitStore, "d1", 1, PageSize).data
    /\ tableOf = "d1"
    /\ pagination = ServerGetDataset(InitStore, "d1", 1, PageSize).pagination
    /\ suggestions = "d1"
    /\ loading = FALSE
    /\ activeTab = "data"
    /\ editingCell = NoCell
    /\ editValue = ""
    /\ sortColumn = NoColumn
    /\ sortDirection = "asc"
    /\ sortOrder = Identity(Len(tableData))
    /\ clickedIndex = -1
    /\ command = ""
    /\ editorLoading = FALSE
    /\ editorResult = NoResult
    /\ query = ""
    /\ queryLoading = FALSE
    /\ queryResult = NoQueryResult
    /\ history = <<>>
    /\ chartQuery = ""
    /\ chartLoading = FALSE
    /\ chartData = NoChart
    /\ chartError = ""
    /\ handedOut = DatasetIds
    /\ InitUploadVars
    /\ InitModelVars("", [models |-> <<"m1", "m2">>, default |-> "m1"])

\* QueryInput, ChartDisplay and DataEditor of a dataset that was selected
InitPanels ==
    /\ store = InitStore
    /\ net = {}
    /\ nextId = 2
    /\ datasets = ServerList(InitStore)
    /\ \E d \in DatasetIds :
          /\ selectedDataset = ServerInfo(InitStore, d)
          /\ tableData = ServerGetDataset(InitStore, d, 1, PageSize).data
          /\ tableOf = d
          /\ pagination = ServerGetDataset(InitStore, d, 1, PageSize).pagination
          /\ suggestions = d
    /\ loading = FALSE
    /\ activeTab = "query"
    /\ editingCell = NoCell
    /\ editValue = ""
    /\ sortColumn = NoColumn
    /\ sortDirection = "asc"
    /\ sortOrder = Identity(Len(tableData))
    /\ clickedIndex = -1
    /\ command = ""
    /\ editorLoading = FALSE
    /\ editorResult = NoResult
    /\ query = ""
    /\ queryLoading = FALSE
    /\ queryResult = NoQueryResult
    /\ history = <<>>
    /\ chartQuery = ""
    /\ chartLoading = FALSE
    /\ chartData = NoChart
    /\ chartError = ""
    /\ handedOut = DatasetIds
    /\ InitUploadVars
    /\ InitModelVars("", [models |-> <<"m1", "m2">>, default |-> "m1"])

NextPanels ==
    \/ setQuery \/ handleSubmit \/ ServerQueryDataset \/ handleSubmitDone
    \/ setChartQuery \/ handleGenerate \/ ServerGenerateChart
    \/ handleGenerateDone
    \/ setCommand \/ handleModify \/ makeAnotherChange \/ ServerModifyData
    \/ handleModifyDone
    \/ setActiveTab \/ NetFail \/ ServerRead \/ refreshDataDone

SpecPanels == InitPanels /\ [][NextPanels]_vars

NextTable ==
    \/ handleSort \/ startEditing \/ setEditValue \/ cancelEditing \/ saveEdit
    \/ onKeyDown
    \/ ClickPage \/ ServerRead \/ handlePageChangeDone

SpecTable == InitTable /\ [][NextTable]_vars

\* the service holds the first dataset only
StoreBeforeUpload == [InitStore EXCEPT !["d2"].exists = FALSE]

\* Home with FileUpload: the page is opened and files are dropped
InitUpload ==
    /\ store = StoreBeforeUpload
    /\ net = {Request(0, "list", "none")}
    /\ nextId = 1
    /\ datasets = <<>>
    /\ selectedDataset = NoDataset
    /\ tableData = <<>>
    /\ tableOf = "none"
    /\ pagination = NoPagination
    /\ suggestions = "none"
    /\ loading = FALSE
    /\ activeTab = "query"
    /\ editingCell = NoCell
    /\ editValue = ""
    /\ sortColumn = NoColumn
    /\ sortDirection = "asc"
    /\ sortOrder = <<>>
    /\ clickedIndex = -1
    /\ command = ""
    /\ editorLoading = FALSE
    /\ editorResult = NoResult
    /\ query = ""
    /\ queryLoading = FALSE
    /\ queryResult = NoQueryResult
    /\ history = <<>>
    /\ chartQuery = ""
    /\ chartLoading = FALSE
    /\ chartData = NoChart
    /\ chartError = ""
    /\ handedOut = {"d1"}
    /\ InitUploadVars
    /\ InitModelVars("", [models |-> <<"m1", "m2">>, default |-> "m1"])

NextUpload ==
    \/ DropFiles \/ resetUpload \/ ServerUpload \/ onDropDone
    \/ ClickDataset \/ SwitchDataset \/ ClickDelete
    \/ NetFail \/ ServerRead \/ ServerListDatasets \/ ServerDeleteDataset
    \/ loadDatasetsDone \/ selectDatasetDone \/ handleDeleteDatasetDone

SpecUpload == InitUpload /\ [][NextUpload]_vars

\* the model selection: the page is opened with some entry preferred_model
\* in localStorage and some configuration of the service
InitModels ==
    /\ store = InitStore
    /\ net = {Request(0, "list", "none")}
    /\ nextId = 1
    /\ datasets = <<>>
    /\ selectedDataset = NoDataset
    /\ tableData = <<>>
    /\ tableOf = "none"
    /\ pagination = NoPagination
    /\ suggestions = "none"
    /\ loading = FALSE
    /\ activeTab = "query"
    /\ editingCell = NoCell
    /\ editValue = ""
    /\ sortColumn = NoColumn
    /\ sortDirection = "asc"
    /\ sortOrder = <<>>
    /\ clickedIndex = -1
    /\ command = ""
    /\ editorLoading = FALSE
    /\ editorResult = NoResult
    /\ query = ""
    /\ queryLoading = FALSE
    /\ queryResult = NoQueryResult
    /\ history = <<>>
    /\ chartQuery = ""
    /\ chartLoading = FALSE
    /\ chartData = NoChart
    /\ chartError = ""
    /\ handedOut = DatasetIds
    /\ InitUploadVars
    /\ \E saved \in SavedModels, config \in ModelConfigs :
          InitModelVars(saved, config)

NextModels == ServerModels \/ loadModelsDone \/ onModelChange \/ Reload

SpecModels == InitModels /\ [][NextModels]_vars

\* questions answered before the ones the model asks, latest first
EarlierHistories ==
    {<<>>,
     <<"q1", "q2", "q3", "q4", "q5", "q6", "q7", "q8", "q9">>,
     <<"q1", "q2", "q3", "q4", "q5", "q6", "q7", "q8", "q9", "q10">>,
     <<"q1", "q2", "q3", "show a", "q5", "q6", "q7", "q8", "q9", "q10">>,
     <<"q1", "q2", "q3", "q4", "q5", "q6", "q7", "q8", "q9", "count rows">>}

\* QueryInput.tsx 40: the result of a question that was answered
AnswerShown(q, resp) ==
    [set |-> TRUE, query |-> q, result_type |-> resp.result_type,
     data |-> resp.value, explanation |-> resp.message,
     pandas_code |-> resp.pandas_code]

\* the "Ask Questions" tab after some questions were answered: the answer
\* to the latest of them is on display
InitHistory ==
    /\ store = InitStore
    /\ net = {}
    /\ nextId = 2
    /\ datasets = ServerList(InitStore)
    /\ \E d \in DatasetIds :
          /\ selectedDataset = ServerInfo(InitStore, d)
          /\ tableData = ServerGetDataset(InitStore, d, 1, PageSize).data
          /\ tableOf = d
          /\ pagination = ServerGetDataset(InitStore, d, 1, PageSize).pagination
          /\ suggestions = d
          /\ \E h \in EarlierHistories :
                /\ history = h
                /\ queryResult =
                      IF h = <<>> THEN NoQueryResult
                      ELSE AnswerShown(h[1], ServerQuery(InitStore, d, h[1], TRUE))
    /\ loading = FALSE
    /\ activeTab = "query"
    /\ editingCell = NoCell
    /\ editValue = ""
    /\ sortColumn = NoColumn
    /\ sortDirection = "asc"
    /\ sortOrder = Identity(Len(tableData))
    /\ clickedIndex = -1
    /\ command = ""
    /\ editorLoading = FALSE
    /\ editorResult = NoResult
    /\ query = ""
    /\ queryLoading = FALSE
    /\ chartQuery = ""
    /\ chartLoading = FALSE
    /\ chartData = NoChart
    /\ chartError = ""
    /\ handedOut = DatasetIds
    /\ InitUploadVars
    /\ InitModelVars("", [models |-> <<"m1", "m2">>, default |-> "m1"])

NextHistory ==
    \/ setQuery \/ handleSubmit \/ ServerQueryDataset \/ handleSubmitDone
    \/ setActiveTab \/ NetFail

SpecHistory == InitHistory /\ [][NextHistory]_vars

(***************************************************************************)
(* Claims.                                                                 *)
(***************************************************************************)

\* C1: the row index saveEdit passes to onCellEdit is the global index of
\* the row whose cell was shown in the edit box when startEditing was
\* called, whatever the page, the page size and the sort state.
C1_EditAppliesToClickedRow ==
    \A r \in net : r.kind = "cell" => r.row = r.clicked

\* C2: a cell update that succeeded, read back with no other write to the
\* dataset in between, returns the new value: when the page handleCellEdit
\* fetches after the update arrives, the table holds the new value in the
\* cell (row_index, column_name).
C2_EditedCellShown ==
    [][\A r \in net :
          (/\ r.kind = "page" /\ r.phase = "done" /\ r.ok
           /\ r.edit.set /\ ~r.edit.dirty
           /\ \A q \in net' : q.n # r.n)
          => LET i == r.edit.row - (r.page - 1) * r.size + 1
             IN  /\ i \in 1..Len(tableData')
                 /\ r.edit.col \in DOMAIN tableData'[i]
                 /\ tableData'[i][r.edit.col] = r.edit.val]_vars

\* the page fetched after a cell update has arrived with the new value,
\* and no other write came in between
C2_Witness ==
    \E r \in net :
        /\ r.kind = "page" /\ r.phase = "done" /\ r.ok
        /\ r.edit.set /\ ~r.edit.dirty
        /\ r.page = 2
        /\ \E i \in 1..Len(r.resp.data) :
              r.resp.data[i][r.edit.col] = r.edit.val

\* the dataset of the request r after the whole command of r
WholeCommand(r) == [store EXCEPT ![r.ds] = ServerModified(store[r.ds], r.text)]

\* the step in which the request r gets its answer q
Answered(r, q) == r.phase = "sent" /\ q.n = r.n /\ q.phase = "done"

\* the step in which the handler of the answered request r runs, in a
\* component that is still mounted
Delivered(r) ==
    r.phase = "done" /\ ~r.orphan /\ \A q \in net' : q.n # r.n

\* C3 as stated: after modifyData returns, either success=true and the
\* dataset holds the complete new state, or success=false or the call
\* throws, and the dataset is exactly what it was before the command.
C3_ModifyAtomic ==
    [][\A r \in net : \A q \in net' :
          (r.kind = "modify" /\ Answered(r, q))
          => /\ (q.ok /\ q.resp.success) => store' = WholeCommand(r)
             /\ (~q.ok \/ ~q.resp.success) => store' = store]_vars

\* C3 amended: a modification command is all or nothing.  With success=true
\* the dataset holds the complete new state and DataEditor shows a success;
\* with success=false it is unchanged; when the call throws it is unchanged
\* or holds the complete new state (the answer was lost after the command
\* was applied), never a part of it, and DataEditor shows a failure.
C3_ModifyAllOrNothing ==
    [][/\ \A r \in net : \A q \in net' :
            (r.kind = "modify" /\ Answered(r, q))
            => /\ (q.ok /\ q.resp.success) => store' = WholeCommand(r)
               /\ (q.ok /\ ~q.resp.success) => store' = store
               /\ ~q.ok => store' \in {store, WholeCommand(r)}
               /\ q.applied <=> (store' = WholeCommand(r) /\ q.resp.success)
       /\ \A r \in net :
            (r.kind = "modify" /\ Delivered(r))
            => /\ editorResult'.set
               /\ editorResult'.success => r.applied
               /\ (r.ok /\ ~editorResult'.success) => ~r.applied]_vars

\* a modify call has thrown although the command was applied
C3_Witness ==
    \E r \in net :
        /\ r.kind = "modify" /\ r.phase = "done" /\ ~r.ok /\ r.applied
        /\ store[r.ds] # InitStore[r.ds]

\* C4: every submitted query whose request settles ends with a result of
\* one of the kinds table, value, text, error: a question about a column
\* that does not exist and a completion that cannot be parsed are answered
\* with an error result, and a rejected request makes handleSubmit build an
\* error result with data null and pandas_code null; loading ends.
C4_QueryEndsWithResult ==
    /\ [](queryResult.set => RenderedKind(queryResult) \in ResultKinds)
    /\ [][/\ \A r \in net : \A q \in net' :
              (r.kind = "query" /\ Answered(r, q) /\ q.ok)
              => /\ q.resp.result_type \in ResultKinds
                 /\ QueryColumn(r.text) \notin SeqToSet(store[r.ds].columns)
                      => q.resp.result_type = "error"
                 /\ q.resp.result_type = "error" => q.resp.message # ""
         /\ \A r \in net :
              (r.kind = "query" /\ Delivered(r))
              => /\ queryResult'.set /\ ~queryLoading'
                 /\ RenderedKind(queryResult') \in ResultKinds
                 /\ r.ok => queryResult'.result_type = r.resp.result_type
                 /\ ~r.ok => /\ queryResult'.result_type = "error"
                              /\ queryResult'.data = Null
                              /\ queryResult'.pandas_code = Null
                              /\ queryResult'.explanation # ""]_vars

\* the catch branch of handleSubmit has built its result
C4_Witness ==
    /\ queryResult.set /\ ~queryLoading
    /\ queryResult.result_type = "error"
    /\ queryResult.explanation = "Network Error"

\* the page sizes a read may ask for
PageSizes == 1..(NRows + 1)

RECURSIVE ConcatPages(_, _, _, _)
ConcatPages(rows, p, last, P) ==
    IF p > last THEN <<>>
    ELSE ServerPageSlice(rows, p, P) \o ConcatPages(rows, p + 1, last, P)

\* C5: for every dataset with R rows and every page size P >= 1 the
\* pagination reports total_pages = ceil(R / P), the slices of the pages
\* 1..total_pages put one after the other are all R rows in their order,
\* and the row number the table shows at position i of page p,
\* (p-1)*P + i + 1, is the position of that row in the dataset.
C5_PagesCoverDataset ==
    \A d \in DatasetIds : \A P \in PageSizes :
        LET rows == store[d].rows
            R == Len(rows)
            last == ServerPagination(rows, 1, P).total_pages
        IN  /\ last * P >= R /\ (last - 1) * P < R
            /\ ConcatPages(rows, 1, last, P) = rows
            /\ \A p \in 1..last :
                  LET slice == ServerGetDataset(store, d, p, P).data
                  IN  /\ slice # <<>>
                      /\ \A i \in 0..(Len(slice) - 1) :
                            /\ RowNumber(p, P, i) \in 1..R
                            /\ rows[RowNumber(p, P, i)] = slice[i + 1]

\* the table shows the last, shorter page of a dataset
C5_Witness ==
    /\ TableRendered
    /\ pagination.current_page = 2 /\ pagination.total_pages = 2
    /\ Len(tableData) < pagination.page_size
    /\ RowNumber(pagination.current_page, pagination.page_size,
                 Len(tableData) - 1) = pagination.total_rows

Writes == {"cell", "modify"}

Failed(r) ==
    \/ ~r.ok
    \/ r.kind = "query" /\ r.resp.result_type = "error"
    \/ r.kind \in {"chart", "modify"} /\ ~r.resp.success

\* a request of the mounted component of its kind is in flight
Pending(kind) == \E r \in net : r.kind = kind /\ ~r.orphan

\* C7: a failed query, chart or modify request affects neither the next
\* request nor another dataset: when its handler has run the loading flag
\* of the component is false again (loading is true exactly while a
\* request of the component is in flight), so the next submission passes
\* the guard, and a dataset changes only in the step in which the service
\* applies a write sent to it.
C7_FailureIsLocal ==
    /\ [](/\ queryLoading <=> Pending("query")
          /\ chartLoading <=> Pending("chart")
          /\ editorLoading <=> Pending("modify")
          /\ (Mounted("query") /\ Trim(query) # "" /\ CanStart
                 /\ ~Pending("query")) => ENABLED handleSubmit
          /\ (Mounted("charts") /\ Trim(chartQuery) # "" /\ CanStart
                 /\ ~Pending("chart")) => ENABLED handleGenerate
          /\ (Mounted("modify") /\ Trim(command) # "" /\ CanStart
                 /\ ~Pending("modify")) => ENABLED handleModify)
    /\ [][/\ \A r \in net :
              (Delivered(r) /\ Failed(r))
              => /\ r.kind = "query" => ~queryLoading'
                 /\ r.kind = "chart" => ~chartLoading'
                 /\ r.kind = "modify" => ~editorLoading'
         /\ \A d \in DatasetIds :
              store'[d] # store[d]
              => \E r \in net : \E q \in net' :
                    /\ r.kind \in Writes /\ r.ds = d
                    /\ Answered(r, q) /\ q.applied]_vars

\* a question that failed is in the history and the next question has
\* been answered
C7_Witness ==
    /\ ~queryLoading /\ queryResult.set /\ queryResult.result_type = "value"
    /\ history = <<"count rows", "sum region">>

\* the kinds of request the claim lists
ShownKinds ==
    {"query", "chart", "modify", "cell", "page", "select", "delete"}

\* C8: for each kind of failed request (query, chart, modify, cell update,
\* page load, dataset select, delete) the page shows an error message
\* once the handler of the request has run.
C8_FailureDisplayed ==
    [][\A r \in net :
          (r.kind \in ShownKinds /\ Delivered(r) /\ ~r.ok)
          => ErrorShown(r.kind, queryResult', chartError', editorResult')]_vars

\* C9: a chart request that names a column the dataset does not have is
\* answered with success=false and a non-empty error, and handleGenerate
\* then sets error to a non-empty message, leaves chartData as it was and
\* ends loading.
C9_MissingColumnChart ==
    [][/\ \A r \in net : \A q \in net' :
            (/\ r.kind = "chart" /\ Answered(r, q) /\ q.ok
             /\ ~(SeqToSet(ChartColumns(r.text))
                    \subseteq SeqToSet(store[r.ds].columns)))
            => ~q.resp.success /\ q.resp.message # ""
       /\ \A r \in net :
            (r.kind = "chart" /\ Delivered(r) /\ r.ok /\ ~r.resp.success)
            => /\ chartError' # ""
               /\ chartData' = chartData
               /\ ~chartLoading']_vars

\* the error of a chart request for a missing column is shown
C9_Witness ==
    /\ chartError = "Column not found" /\ ~chartLoading /\ ~chartData.set

\* C10: the x key and the y key renderChart uses for a chart it draws are
\* keys of the rows of the chart's data.
C10_ChartKeysExist ==
    ChartDrawn
    => /\ XKey \in SeqToSet(chartData.keys)
       /\ YKey \in SeqToSet(chartData.keys)

\* the step in which the handler of the answered modify request r runs,
\* in a DataEditor that is mounted or not
ModifyHandled(r) ==
    r.kind = "modify" /\ r.phase = "done" /\ \A q \in net' : q.n # r.n

\* C11: when a modify command has returned success=true refreshData is
\* called, and when its fetch has arrived (nothing else written since) the
\* dataset info and the page rows shown are those of the service after the
\* modification, whose row count and column list agree with the reported
\* rows_affected; after success=false or a throw refreshData is not called.
C11_RefreshAfterModify ==
    [][/\ \A r \in net :
            ModifyHandled(r)
            => IF r.ok /\ r.resp.success
               THEN /\ loading'
                    /\ \E q \in net' \ net :
                          q.kind = "refresh" /\ q.phase = "sent" /\ q.ds = r.ds
               ELSE net' = net \ {r}
       /\ \A r \in net : \A q \in net' :
            (r.kind = "modify" /\ Answered(r, q) /\ q.resp.success)
            => LET before == store[r.ds]
                   after == store'[r.ds]
               IN  /\ q.resp.rows_affected \in 0..Len(before.rows)
                   /\ Len(after.rows) # Len(before.rows)
                        => Len(after.rows) =
                              Len(before.rows) - q.resp.rows_affected
                   /\ \A i \in 1..Len(after.rows) :
                          DOMAIN after.rows[i] = SeqToSet(after.columns)
       /\ \A r \in net :
            (r.kind = "refresh" /\ Delivered(r) /\ r.ok /\ ~r.stale)
            => /\ selectedDataset' = ServerInfo(store, r.ds)
               /\ tableData' = ServerPageSlice(store[r.ds].rows, r.page, r.size)
               /\ pagination'.total_rows = Len(store[r.ds].rows)
               /\ ~loading']_vars

\* the column a command added is shown after the refresh
C11_Witness ==
    /\ selectedDataset # NoDataset /\ ~loading
    /\ editorResult.set /\ editorResult.success
    /\ selectedDataset.columns = Len(InitStore[selectedDataset.id].columns) + 1
    /\ selectedDataset = ServerInfo(store, selectedDataset.id)
    /\ tableData # <<>> /\ "total" \in DOMAIN tableData[1]

\* C12: a dataset is destroyed only by a delete request; when the request
\* of handleDeleteDataset(id) has succeeded, id is not in the datasets list
\* any more and, if id is the selected dataset, the selection is cleared
\* and the table rows are emptied; when it has failed the list and the
\* selection are unchanged.
C12_DeleteClearsSelection ==
    [][/\ \A r \in net :
            (r.kind = "delete" /\ Delivered(r))
            => IF r.ok
               THEN /\ \A i \in 1..Len(datasets') : datasets'[i].id # r.ds
                    /\ selectedDataset.id = r.ds
                         => selectedDataset' = NoDataset /\ tableData' = <<>>
               ELSE datasets' = datasets /\ selectedDataset' = selectedDataset
       /\ \A d \in DatasetIds :
            (store[d].exists /\ ~store'[d].exists)
            => \E r \in Sent : r.kind = "delete" /\ r.ds = d]_vars

\* the requests of the mounted component of a kind that are in flight
PendingOf(kind) == {r \in net : r.kind = kind /\ ~r.orphan}

\* C15: QueryInput, ChartDisplay and DataEditor each have at most one
\* request in flight: while loading is true a submit sends no request,
\* and a blank query or command never sends one.
C15_OneRequestInFlight ==
    /\ \A kind \in {"query", "chart", "modify"} :
          Cardinality(PendingOf(kind)) <= 1
    /\ (queryLoading \/ Trim(query) = "") => ~ENABLED handleSubmit
    /\ (chartLoading \/ Trim(chartQuery) = "") => ~ENABLED handleGenerate
    /\ (editorLoading \/ Trim(command) = "") => ~ENABLED handleModify
    /\ \A r \in net :
          r.kind \in {"query", "chart", "modify"} => Trim(r.text) # ""

\* a question is typed while the request of the one before is in flight
C15_Witness ==
    /\ Mounted("query") /\ queryLoading /\ PendingOf("query") # {}
    /\ Trim(query) # "" /\ CanStart
    /\ \E r \in PendingOf("query") : r.text # query

\* C16: whenever a dataset is selected and loading is false, the rows the
\* table holds and the pagination were fetched from the selected dataset,
\* whatever the order in which the answers to selectDataset,
\* handlePageChange and refreshData arrive or fail.
C16_TableOfSelected ==
    (selectedDataset # NoDataset /\ ~loading /\ tableData # <<>>)
        => tableOf = selectedDataset.id

\* C17: when the load started by selecting a dataset finishes with an
\* answer that reflects the current state of the service, the column list
\* and the row and column counts the page holds for the selected dataset
\* equal the schema the service has for it, also when the dataset was
\* modified before and is selected again from the list.
C17_SchemaIsCurrent ==
    [][\A r \in net :
          (r.kind = "select" /\ Delivered(r) /\ r.ok /\ ~r.stale
             /\ selectedDataset # NoDataset /\ selectedDataset.id = r.ds)
          => /\ selectedDataset'.column_names = store[r.ds].columns
             /\ selectedDataset'.columns = Len(store[r.ds].columns)
             /\ selectedDataset'.rows = Len(store[r.ds].rows)]_vars

\* C19: loading is true in every state in which a fetch started by
\* selectDataset, handlePageChange or refreshData has not settled yet.
C19_LoadingWhileFetching ==
    (\E r \in net : r.kind \in {"select", "page", "refresh"}) => loading

\* C20: the page the table shows exists after a refresh as it did before:
\* when the table shows an existing page of the selected dataset and a
\* refresh of that page is answered, 1 <= current_page <= max(1,
\* total_pages) still holds and the table shows rows if the dataset has any.
PageExists(p) ==
    /\ p.current_page >= 1
    /\ p.current_page <= (IF p.total_pages > 1 THEN p.total_pages ELSE 1)

C20_PageExists ==
    [][\A r \in net :
          (/\ r.kind = "refresh" /\ Delivered(r) /\ r.ok
           /\ selectedDataset # NoDataset /\ selectedDataset.id = r.ds
           /\ tableOf = r.ds /\ r.page = pagination.current_page
           /\ PageExists(pagination))
          => /\ PageExists(pagination')
             /\ pagination'.total_rows > 0 => tableData' # <<>>]_vars

\* the file names whose text from the last '.' is, in lower case, .csv,
\* .xlsx or .xls
CsvOrExcel == {"a.csv", "b.XLS", "c.x.xlsx"}

\* C13: only CSV and Excel files are uploaded.  A dropped file whose
\* extension is not .csv, .xlsx or .xls gets the error message, uploadFile
\* is not called and onUploadSuccess does not fire; a file with a valid
\* extension causes exactly one uploadFile call, followed by
\* onUploadSuccess on success or an error message on failure, and
\* uploading is false afterwards.
C13_OnlyCsvAndExcel ==
    /\ [](uploading <=> \E r \in net : r.kind = "upload" /\ ~r.orphan)
    /\ [][/\ \A f \in FileNames :
              (DropFiles /\ onDrop(<<f>>))
              => IF f \in CsvOrExcel
                 THEN /\ \E q \in net' :
                            /\ net' = net \cup {q} /\ q \notin net
                            /\ q.kind = "upload" /\ q.phase = "sent"
                            /\ q.text = f
                      /\ uploading' /\ uploadError' = ""
                 ELSE /\ uploadError' = InvalidTypeText
                      /\ net' = net
                      /\ ~uploading'
                      /\ datasets' = datasets
                      /\ selectedDataset' = selectedDataset
          /\ \A r \in net :
              (r.kind = "upload" /\ r.phase = "done" /\ \A q \in net' : q.n # r.n)
              => /\ r.text \in CsvOrExcel
                 /\ IF r.ok
                    THEN /\ datasets' = <<r.resp.info>> \o datasets
                         /\ selectedDataset' = r.resp.info
                         /\ ~uploading'
                    ELSE /\ datasets' = datasets
                         /\ selectedDataset' = selectedDataset
                         /\ ~r.orphan => (uploadError' # "" /\ ~uploading')]_vars

\* a file with an upper-case extension was sent and its upload failed, and
\* then a file of another type was dropped and rejected
C13_Witness ==
    /\ uploadedFile = "b.XLS" /\ uploadError = InvalidTypeText
    /\ ~uploading /\ net = {}

\* the entries of a dataset list that name the dataset d
Entries(list, d) == {i \in 1..Len(list) : list[i].id = d}
\* the datasets that were uploaded
Uploaded == {d \in handedOut : ~StoreBeforeUpload[d].exists}

\* C18: when an upload has succeeded the uploaded dataset is selected and
\* is in the datasets list exactly once, and an uploaded dataset that is in
\* the list stays in it, once, as long as it is not deleted, whenever the
\* answer to the loadDatasets of the mount effect arrives.
C18_UploadedListedOnce ==
    [][/\ \A r \in net :
            (r.kind = "upload" /\ r.phase = "done" /\ r.ok
               /\ \A q \in net' : q.n # r.n)
            => /\ selectedDataset'.id = r.ds
               /\ Cardinality(Entries(datasets', r.ds)) = 1
       /\ \A d \in Uploaded :
            (Entries(datasets, d) # {} /\ store'[d].exists)
            => Cardinality(Entries(datasets', d)) = 1]_vars

\* the step in which loadModels handles an answer with the model list
ModelsLoaded ==
    modelReq.phase = "done" /\ modelReq.ok /\ modelReq'.phase = "none"

\* C14: the selected model is one of the configured models.  After
\* loadModels succeeds selectedModel is the saved preferred_model when that
\* id is in the list of the service and the default of the service
\* otherwise; every non-empty selection is in localStorage; and a page that
\* is loaded again, with the same list, selects what was selected before.
C14_ModelAmongConfigured ==
    /\ [](selectedModel # ""
            => /\ selectedModel \in SeqToSet(modelConfig.models)
               /\ preferredModel = selectedModel)
    /\ [][/\ ModelsLoaded
              => /\ selectedModel' =
                      IF preferredModel \in SeqToSet(modelConfig.models)
                      THEN preferredModel ELSE modelConfig.default
                 /\ models' = modelConfig.models
                 /\ modelReq.prev # "" => selectedModel' = modelReq.prev
          /\ selectedModel' \notin {"", selectedModel}
              => preferredModel' = selectedModel']_vars

\* a model that is not the default was selected, the page was loaded again
\* and the model is selected again
C14_Witness ==
    /\ modelReq.phase = "none" /\ ~modelsLoading
    /\ modelReq.prev # "" /\ selectedModel = modelReq.prev
    /\ selectedModel # modelConfig.default

\* C21: handleGenerate leaves chartData as it is when the answer has
\* success=false or the request throws: only error is set and loading is
\* false again, so an earlier chart stays; chartData is replaced only by an
\* answer with success=true.
C21_FailedChartKeepsChart ==
    [][/\ \A r \in net :
            (r.kind = "chart" /\ Delivered(r))
            => /\ ~chartLoading'
               /\ (~r.ok \/ ~r.resp.success)
                    => /\ chartData' = chartData
                       /\ chartError' # ""
               /\ (r.ok /\ r.resp.success)
                    => /\ chartData'.set /\ chartData'.data = r.resp.data
                       /\ chartData'.config = r.resp.config
       /\ (chartData' # chartData /\ chartData'.set)
            => \E r \in net : /\ r.kind = "chart" /\ Delivered(r)
                               /\ r.ok /\ r.resp.success]_vars

\* a chart was drawn, and a later request for another chart has failed
C21_Witness ==
    chartData.set /\ ChartDrawn /\ chartError # "" /\ ~chartLoading

\* C22: FileUpload never shows success and error together, and the file
\* uploadedFile names is the file the shown status is about: after a drop
\* that leaves a status (uploading, success or error) next to a file name,
\* the name is that of the file that was dropped.
C22_StatusOfUploadedFile ==
    /\ [](uploadSuccess => uploadError = "")
    /\ [][\A f \in FileNames :
              (/\ DropFiles /\ onDrop(<<f>>)
               /\ uploading' \/ uploadSuccess' \/ uploadError' # ""
               /\ uploadedFile' # "")
              => uploadedFile' = f]_vars

\* C23: saving an edit whose text is the text startEditing put into the
\* edit box sends the value the cell holds, with its type.
C23_UnchangedEditIsNoOp ==
    [][\A q \in net' :
          (/\ q.kind = "cell" /\ \A r \in net : r.n # q.n
           /\ EditBoxShown
           /\ editValue = ToStr(RowVal(sortedData[editingCell.row + 1],
                                       editingCell.column)))
          => q.val = RowVal(sortedData[editingCell.row + 1],
                            editingCell.column)]_vars

\* the cell updates sent in a step
NewCellEdits == {q \in net' : q.kind = "cell" /\ \A r \in net : r.n # q.n}

\* C24: cancelling an edit (Escape or the X button) sends no update: the
\* requests, the dataset and the rows shown are unchanged and no cell is
\* edited afterwards.  A save (Enter or the check button) calls onCellEdit
\* exactly once, and an update is sent only from a cell that is edited.
C24_CancelSendsNothing ==
    [][/\ (EditBoxShown /\ (handleKeyDown("Escape") \/ cancelEditing))
            => /\ net' = net /\ store' = store
               /\ tableData' = tableData /\ sortOrder' = sortOrder
               /\ editingCell' = NoCell
       /\ (EditBoxShown /\ (handleKeyDown("Enter") \/ saveEdit))
            => /\ Cardinality(NewCellEdits) = 1
               /\ net' = net \cup NewCellEdits
               /\ editingCell' = NoCell
       /\ NewCellEdits # {}
            => /\ EditBoxShown
               /\ Cardinality(NewCellEdits) = 1
               /\ \A q \in NewCellEdits :
                     /\ q.col = editingCell.column
                     /\ q.val = ParseEdit(editValue)]_vars

\* an edit was saved and another cell is being edited with a changed text
C24_Witness ==
    /\ \E r \in net : r.kind = "cell" /\ r.phase = "sent"
    /\ EditBoxShown
    /\ editValue # ToStr(RowVal(sortedData[editingCell.row + 1],
                                editingCell.column))

\* C25: with 1 <= currentPage <= totalPages no pagination control asks for
\* a page outside 1..totalPages: no control leads below page 1 or to page 1
\* from page 1, none leads beyond the last page or to it from the last
\* page, there are controls only when totalPages > 1, and the range shown
\* lies within 1..totalRows.
C25_ControlsStayInRange ==
    /\ []((TableRendered /\ pagination.current_page >= 1
              /\ pagination.current_page <= pagination.total_pages)
           => /\ PageTargets \subseteq 1..pagination.total_pages
              /\ pagination.current_page \notin PageTargets
              /\ pagination.total_pages <= 1 => PageTargets = {}
              /\ pagination.total_pages > 1
                   => /\ PageTargets # {}
                      /\ 1 <= ShownFrom /\ ShownFrom <= ShownTo
                      /\ ShownTo <= pagination.total_rows)
    /\ [][(ClickPage /\ pagination.current_page >= 1
              /\ pagination.current_page <= pagination.total_pages)
           => \A q \in net' :
                 (q.kind = "page" /\ \A r \in net : r.n # q.n)
                 => q.page \in 1..pagination.total_pages]_vars

\* the last of several pages is shown
C25_Witness ==
    /\ TableRendered /\ ~loading
    /\ pagination.total_pages > 1
    /\ pagination.current_page = pagination.total_pages
    /\ 1 \in PageTargets


\* the place of an entry in a history
Place(h, q) == CHOOSE i \in 1..Len(h) : h[i] = q

\* C26: the query history holds at most 10 entries, no duplicates and
\* trimmed text only; a question whose request resolved is put first, the
\* earlier entries follow in their order without the question itself, only
\* entries at the end are dropped; a rejected request leaves the history
\* as it was, and nothing else adds an entry.
C26_HistoryKept ==
    /\ [](/\ Len(history) <= HistoryMax
          /\ \A i, j \in 1..Len(history) : history[i] = history[j] => i = j
          /\ \A i \in 1..Len(history) :
                history[i] # "" /\ Trim(history[i]) = history[i])
    /\ [][/\ \A r \in net :
              (r.kind = "query" /\ Delivered(r))
              => IF r.ok
                 THEN /\ history' # <<>> /\ history'[1] = r.text
                      /\ Len(history') =
                            IF r.text \in SeqToSet(history)
                            THEN Len(history)
                            ELSE IF Len(history) < HistoryMax
                            THEN Len(history) + 1 ELSE HistoryMax
                      /\ \A i, j \in 2..Len(history') :
                            /\ history'[i] \in SeqToSet(history)
                            /\ i < j => Place(history, history'[i])
                                          < Place(history, history'[j])
                      /\ \A k \in 1..Len(history) :
                            history[k] \notin SeqToSet(history')
                            => \/ history[k] = r.text
                               \/ /\ k = HistoryMax
                                  /\ r.text \notin SeqToSet(history)
                 ELSE history' = history
          /\ (history' # history /\ history' # <<>>)
              => \E r \in net : r.kind = "query" /\ Delivered(r) /\ r.ok]_vars

\* a full history took a new question and then moved an earlier one to
\* the front
C26_Witness ==
    /\ Len(history) = HistoryMax /\ ~queryLoading /\ queryResult.set
    /\ history[1] = "show a" /\ history[2] = "describe"
    /\ history[5] = "q3" /\ "q10" \notin SeqToSet(history)
====
